---------------------------- MODULE Spec2Model ----------------------------
(***************************************************************************)
(* Model of the kratos-mcp retrieval core: the per-project memory store    *)
(* (MemoryDatabase), its search fallback cascade, and the context broker   *)
(* (ContextBroker).                                                        *)
(*                                                                         *)
(* Strings are sequences of one-character strings, so that the regular    *)
(* expressions of the code (\w, \s, trim, split, startsWith) are computed  *)
(* character by character.                                                 *)
(***************************************************************************)
EXTENDS Integers, Sequences, FiniteSets, TLC

(***************************************************************************)
(* Bounds of the model.                                                    *)
(***************************************************************************)
\* the clock stops advancing at MaxNow milliseconds
MaxNow == 1500
\* the clock advances in steps of TickMs milliseconds
TickMs == 1500
\* generateId draws its random suffix from 0 .. MaxRand
MaxRand == 1

(***************************************************************************)
(* Characters.                                                             *)
(***************************************************************************)
\* the letters and the digits, in the order of their code units
LowerLetters ==
  <<"a", "b", "c", "d", "e", "f", "g", "h", "i", "j", "k", "l", "m",
    "n", "o", "p", "q", "r", "s", "t", "u", "v", "w", "x", "y", "z">>

UpperLetters ==
  <<"A", "B", "C", "D", "E", "F", "G", "H", "I", "J", "K", "L", "M",
    "N", "O", "P", "Q", "R", "S", "T", "U", "V", "W", "X", "Y", "Z">>

Digits == <<"0", "1", "2", "3", "4", "5", "6", "7", "8", "9">>

\* the punctuation and the whitespace of the model, with their code units
OtherCodes ==
  << <<"\n", 10>>, <<" ", 32>>, <<"!", 33>>, <<"\"", 34>>, <<"#", 35>>, <<"*", 42>>,
     <<",", 44>>, <<"-", 45>>, <<".", 46>>, <<"/", 47>>, <<":", 58>>, <<"\\", 92>>,
     <<"_", 95>>, <<"|", 124>> >>

\* UTF-16 code unit of the characters the model uses (String.prototype.sort
\* and the comparisons of the code order strings by code unit)
CodeUnits ==
  [c \in {LowerLetters[i] : i \in 1..26} \cup {UpperLetters[i] : i \in 1..26}
           \cup {Digits[i] : i \in 1..10} \cup {OtherCodes[i][1] : i \in 1..Len(OtherCodes)} |->
     IF \E i \in 1..26 : LowerLetters[i] = c
     THEN 96 + (CHOOSE i \in 1..26 : LowerLetters[i] = c)
     ELSE IF \E i \in 1..26 : UpperLetters[i] = c
     THEN 64 + (CHOOSE i \in 1..26 : UpperLetters[i] = c)
     ELSE IF \E i \in 1..10 : Digits[i] = c
     THEN 47 + (CHOOSE i \in 1..10 : Digits[i] = c)
     ELSE OtherCodes[CHOOSE i \in 1..Len(OtherCodes) : OtherCodes[i][1] = c][2]]

CharCode(c) == CodeUnits[c]

\* the regular expression class \s
IsSpace(c) == c \in {" ", "\n"}

IsUpper(c) == c \in {UpperLetters[i] : i \in 1..26}

IsLowerLetter(c) == c \in {LowerLetters[i] : i \in 1..26}

IsDigit(c) == c \in {Digits[i] : i \in 1..10}

\* the regular expression class \w: [A-Za-z0-9_]
IsWordChar(c) ==
  c \in {LowerLetters[i] : i \in 1..26} \cup {UpperLetters[i] : i \in 1..26}
          \cup {Digits[i] : i \in 1..10} \cup {"_"}

\* String.prototype.toLowerCase on the characters of the model
LowerCase ==
  [c \in DOMAIN CodeUnits |->
     IF \E i \in 1..26 : UpperLetters[i] = c
     THEN LowerLetters[CHOOSE i \in 1..26 : UpperLetters[i] = c]
     ELSE c]

LowerChar(c) == LowerCase[c]

(***************************************************************************)
(* String helpers (JavaScript String methods).                             *)
(***************************************************************************)
ToLowerCase(s) == [i \in 1..Len(s) |-> LowerChar(s[i])]

RECURSIVE TrimStart(_)
TrimStart(s) ==
  IF s # <<>> /\ IsSpace(Head(s)) THEN TrimStart(Tail(s)) ELSE s

RECURSIVE TrimEnd(_)
TrimEnd(s) ==
  IF s # <<>> /\ IsSpace(s[Len(s)]) THEN TrimEnd(SubSeq(s, 1, Len(s) - 1)) ELSE s

\* String.prototype.trim
Trim(s) == TrimEnd(TrimStart(s))

\* s.replace(/[^\w\s]/g, ' ')
ReplaceSpecial(s) ==
  [i \in 1..Len(s) |-> IF IsWordChar(s[i]) \/ IsSpace(s[i]) THEN s[i] ELSE " "]

\* s.replace(/[^\w\s]/g, '')
RemoveSpecial(s) == SelectSeq(s, LAMBDA c : IsWordChar(c) \/ IsSpace(c))

\* s.match(/[^\w\s]/) is not null
HasSpecial(s) == \E i \in 1..Len(s) : ~IsWordChar(s[i]) /\ ~IsSpace(s[i])

\* s.replace(/\s+/g, ' ')
RECURSIVE CollapseSpaces(_)
CollapseSpaces(s) ==
  IF s = <<>> THEN <<>>
  ELSE IF IsSpace(Head(s))
       THEN <<" ">> \o CollapseSpaces(TrimStart(s))
       ELSE <<Head(s)>> \o CollapseSpaces(Tail(s))

\* s.includes(c) for a one-character c
HasChar(s, c) == \E i \in 1..Len(s) : s[i] = c

\* s.startsWith(p)
StartsWith(s, p) == Len(p) <= Len(s) /\ SubSeq(s, 1, Len(p)) = p

\* s.includes(p)
Includes(s, p) ==
  \E i \in 0..(Len(s) - Len(p)) : SubSeq(s, i + 1, i + Len(p)) = p

\* the length of the first run of non-space characters of s
RECURSIVE WordLen(_)
WordLen(s) ==
  IF s = <<>> \/ IsSpace(Head(s)) THEN 0 ELSE 1 + WordLen(Tail(s))

\* s.split(/\s+/): the runs between maximal whitespace runs; a leading or a
\* trailing whitespace run yields an empty first or last element, and the
\* empty string yields one empty element
RECURSIVE SplitSpaces(_)
RECURSIVE SplitSpacesAt(_, _)
SplitSpaces(s) == SplitSpacesAt(s, WordLen(s))

\* the split of s whose first word has length n
SplitSpacesAt(s, n) ==
  IF n = Len(s) THEN <<s>>
  ELSE <<SubSeq(s, 1, n)>> \o SplitSpaces(TrimStart(SubSeq(s, n + 1, Len(s))))

\* parts.join(sep)
RECURSIVE Join(_, _)
Join(parts, sep) ==
  IF parts = <<>> THEN <<>>
  ELSE IF Len(parts) = 1 THEN parts[1]
  ELSE parts[1] \o sep \o Join(Tail(parts), sep)

\* comparison of two strings by code units (the default order of Array.sort)
RECURSIVE StrLess(_, _)
StrLess(s, t) ==
  IF t = <<>> THEN FALSE
  ELSE IF s = <<>> THEN TRUE
  ELSE IF CharCode(Head(s)) # CharCode(Head(t))
       THEN CharCode(Head(s)) < CharCode(Head(t))
       ELSE StrLess(Tail(s), Tail(t))

\* insertion of x into a sorted sequence of strings
RECURSIVE InsertSorted(_, _)
InsertSorted(x, sorted) ==
  IF sorted = <<>> THEN <<x>>
  ELSE IF StrLess(x, Head(sorted)) THEN <<x>> \o sorted
  ELSE <<Head(sorted)>> \o InsertSorted(x, Tail(sorted))

\* Array.prototype.sort() without a comparator
RECURSIVE SortStrings(_)
SortStrings(a) ==
  IF a = <<>> THEN <<>>
  ELSE InsertSorted(a[Len(a)], SortStrings(SubSeq(a, 1, Len(a) - 1)))


(***************************************************************************)
(* Optional values: <<>> is undefined (or SQL NULL), <<v>> is the value v. *)
(***************************************************************************)
None == <<>>

Some(v) == <<v>>

IsSome(o) == o # <<>>

\* o || d for an optional number o: undefined and 0 are falsy
OrDefault(o, d) == IF IsSome(o) /\ o[1] # 0 THEN o[1] ELSE d

\* o || [] for an optional array o
OrEmpty(o) == IF IsSome(o) THEN o[1] ELSE <<>>

(***************************************************************************)
(* State.                                                                  *)
(*   memories[p] : the rows of table memories in the database file of      *)
(*                 project p, in rowid order                               *)
(*   now         : Date.now(), in milliseconds                             *)
(*   ret         : the last call: its name, its parameters, what it        *)
(*                 returned                                                *)
(***************************************************************************)
VARIABLES memories, now, ret, conceptDb, enhancedDb, broker, server

vars == <<memories, now, ret, conceptDb, enhancedDb, broker, server>>

\* the stores of concepts: conceptDb[p] is the database file concepts.db that the
\* ConceptStore instance of project p holds open, enhancedDb[p] the one of
\* the ConceptStoreEnhanced instance of project p
cvars == <<conceptDb, enhancedDb>>

\* the server after its construction: no component, no current project;
\* workingDir is the project of KRATOS_PROJECT_ROOT || process.cwd()
NewServer ==
  [handles |-> <<>>, instances |-> {}, memoryDb |-> None, conceptStore |-> None,
   contextBroker |-> None, currentProject |-> None, workingDir |-> "pA",
   running |-> TRUE]

\* the map ConceptStore.instances before any getInstance
NoStores == <<>>

\* the project ids for which a database handle is open
Projects == {"pA", "pB"}

\* milliseconds per second of ttl
MsPerSec == 1000

\* params.importance || 3
DefaultImportance == 3

MinImportance == 1

MaxImportance == 5

\* params.k || 10
DefaultK == 10

(***************************************************************************)
(* MemoryDatabase: helpers.                                                *)
(***************************************************************************)
\* crypto md5: modelled as collision-free, the digest is the digested text
Md5(s) == s

\* computeDedupeHash without toLowerCase(): summaries that differ in case get
\* different hashes
computeDedupeHashCaseSensitive(summary, paths) ==
  Md5(Trim(summary) \o <<"|">> \o Join(SortStrings(paths), <<"|">>))

\* computeDedupeHash(summary, paths); paths is the array after paths.sort()
computeDedupeHash(summary, paths) ==
  Md5(Trim(ToLowerCase(summary)) \o <<"|">> \o Join(SortStrings(paths), <<"|">>))

\* generateId(): mem_<Date.now()>_<4 random bytes>
generateId(t, r) == <<t, r>>

\* the CHECK constraint of column importance
CheckImportance(i) == i >= MinImportance /\ i <= MaxImportance

\* importance is a number.  A row or Memory holds it as the integer
\* importance, plus one half when importance_half is set; a call gives a
\* number that is not an integer as importance with importance_half TRUE.
HalfOf(params) == "importance_half" \in DOMAIN params /\ params.importance_half

\* twice the number
TwiceImportance(memory) == 2 * memory.importance + (IF memory.importance_half THEN 1 ELSE 0)

\* CHECK(importance >= 1 AND importance <= 5) on the number of a row
CheckNumber(row) ==
  /\ row.importance >= MinImportance
  /\ TwiceImportance(row) <= 2 * MaxImportance

\* the rows of project p's table with the given id (PRIMARY KEY: at most one)
RowsWithId(p, id) ==
  {i \in 1..Len(memories[p]) : memories[p][i].id = id /\ memories[p][i].project_id = p}

\* SELECT id FROM memories WHERE dedupe_hash = ? AND project_id = ? (.get():
\* the first row)
RowsWithHash(p, h) ==
  {i \in 1..Len(memories[p]) :
      memories[p][i].dedupe_hash = h /\ memories[p][i].project_id = p}

Min(S) == CHOOSE x \in S : \A y \in S : x <= y

\* the sequence s without the positions in the set drop
RECURSIVE RemoveAt(_, _)
RemoveAt(s, drop) ==
  IF s = <<>> THEN <<>>
  ELSE LET rest == RemoveAt(SubSeq(s, 1, Len(s) - 1), drop)
       IN IF Len(s) \in drop THEN rest ELSE Append(rest, s[Len(s)])

\* rowToMemory(row): the Memory object of a row (dedupe_hash is not copied)
rowToMemory(row) ==
  [id |-> row.id, project_id |-> row.project_id, summary |-> row.summary,
   text |-> row.text, tags |-> row.tags, paths |-> row.paths,
   importance |-> row.importance, importance_half |-> row.importance_half,
   created_at |-> row.created_at,
   updated_at |-> row.updated_at, ttl |-> row.ttl, expires_at |-> row.expires_at]

(***************************************************************************)
(* MemoryDatabase.update(id, params): the row after the UPDATE statement.  *)
(* params.paths has been sorted in place by computeDedupeHash.  ttl,       *)
(* expires_at, created_at and dedupe_hash are not touched.                 *)
(***************************************************************************)
UpdatedRowResetsCreated(row, params, t) ==
  [row EXCEPT
     !.created_at = t,
     !.updated_at = t,
     !.summary = params.summary,
     !.text = params.text,
     !.tags = IF IsSome(params.tags) THEN params.tags[1] ELSE @,
     !.paths = IF IsSome(params.paths) THEN SortStrings(params.paths[1]) ELSE @,
     !.importance = IF IsSome(params.importance) THEN params.importance[1] ELSE @,
     !.importance_half = IF IsSome(params.importance) THEN HalfOf(params) ELSE @]

\* an update that also writes ttl and expires_at, as the INSERT does
UpdatedRowRenewsExpiry(row, params, t) ==
  [row EXCEPT
     !.updated_at = t,
     !.summary = params.summary,
     !.text = params.text,
     !.tags = IF IsSome(params.tags) THEN params.tags[1] ELSE @,
     !.paths = IF IsSome(params.paths) THEN SortStrings(params.paths[1]) ELSE @,
     !.importance = IF IsSome(params.importance) THEN params.importance[1] ELSE @,
     !.importance_half = IF IsSome(params.importance) THEN HalfOf(params) ELSE @,
     !.ttl = params.ttl,
     !.expires_at = IF IsSome(params.ttl) /\ params.ttl[1] # 0
                    THEN Some(t + params.ttl[1] * MsPerSec) ELSE None]

UpdatedRow(row, params, t) ==
  [row EXCEPT
     !.updated_at = t,
     !.summary = params.summary,
     !.text = params.text,
     !.tags = IF IsSome(params.tags) THEN params.tags[1] ELSE @,
     !.paths = IF IsSome(params.paths) THEN SortStrings(params.paths[1]) ELSE @,
     !.importance = IF IsSome(params.importance) THEN params.importance[1] ELSE @,
     !.importance_half = IF IsSome(params.importance) THEN HalfOf(params) ELSE @]

\* the row of the INSERT statement of save
InsertedRow(p, id, params, t) ==
  [id |-> id, project_id |-> p,
   summary |-> params.summary, text |-> params.text,
   tags |-> OrEmpty(params.tags),
   paths |-> SortStrings(OrEmpty(params.paths)),
   importance |-> IF HalfOf(params) THEN params.importance[1]
                  ELSE OrDefault(params.importance, DefaultImportance),
   importance_half |-> HalfOf(params),
   created_at |-> t, updated_at |-> t,
   ttl |-> IF IsSome(params.ttl) /\ params.ttl[1] # 0 THEN params.ttl ELSE None,
   expires_at |-> IF IsSome(params.ttl) /\ params.ttl[1] # 0
                  THEN Some(t + params.ttl[1] * MsPerSec) ELSE None,
   dedupe_hash |-> computeDedupeHash(params.summary, OrEmpty(params.paths))]

\* the Memory object save returns after an INSERT: the fields of the row,
\* with ttl as the caller gave it
SavedMemory(row, params) == [rowToMemory(row) EXCEPT !.ttl = params.ttl]

(***************************************************************************)
(* MemoryDatabase.save(params) on the handle of project p; r is the random *)
(* suffix generateId draws.  outcome is "updated" (fingerprint collision), *)
(* "inserted", or "threw" (a constraint of the table failed: the statement *)
(* changed nothing and the exception escapes save).  out is the object the *)
(* call returns: the Memory after an INSERT, { id } after an update.       *)
(***************************************************************************)
Save(p, params, r) ==
  /\ UNCHANGED <<now, cvars, broker, server>>
  /\ LET id == generateId(now, r)
         h == computeDedupeHash(params.summary, OrEmpty(params.paths))
         hit == RowsWithHash(p, h)
     IN IF hit # {}
        THEN LET i == Min(hit)
                 row == memories[p][i]
                 new == UpdatedRow(row, params, now)
             IN IF CheckNumber(new)
                THEN /\ memories' = [memories EXCEPT ![p][i] = new]
                     /\ ret' = [op |-> "save", project |-> p, params |-> params,
                                outcome |-> "updated", id |-> row.id,
                                out |-> [id |-> row.id]]
                ELSE /\ memories' = memories
                     /\ ret' = [op |-> "save", project |-> p, params |-> params,
                                outcome |-> "threw", id |-> None]
        ELSE LET new == InsertedRow(p, id, params, now)
             IN IF CheckNumber(new)
                   /\ \A i \in 1..Len(memories[p]) : memories[p][i].id # id
                THEN /\ memories' = [memories EXCEPT ![p] = Append(@, new)]
                     /\ ret' = [op |-> "save", project |-> p, params |-> params,
                                outcome |-> "inserted", id |-> id,
                                out |-> SavedMemory(new, params)]
                ELSE /\ memories' = memories
                     /\ ret' = [op |-> "save", project |-> p, params |-> params,
                                outcome |-> "threw", id |-> None]

(***************************************************************************)
(* MemoryDatabase.forget(id).  Table memories_fts does not exist (the FTS  *)
(* table is mem_fts), so the inner block does nothing.                     *)
(***************************************************************************)
\* forget with a DELETE that lacks "id = ?": it empties the project's table
ForgetWithoutIdFilter(p, id) ==
  /\ UNCHANGED <<now, cvars, broker, server>>
  /\ LET hit == RowsWithId(p, id)
     IN IF hit = {}
        THEN /\ memories' = memories
             /\ ret' = [op |-> "forget", project |-> p, id |-> id, ok |-> FALSE,
                        message |-> "not found in project"]
        ELSE /\ memories' = [memories EXCEPT ![p] = <<>>]
             /\ ret' = [op |-> "forget", project |-> p, id |-> id, ok |-> TRUE,
                        message |-> "Memory deleted successfully"]

Forget(p, id) ==
  /\ UNCHANGED <<now, cvars, broker, server>>
  /\ LET hit == RowsWithId(p, id)
     IN IF hit = {}
        THEN /\ memories' = memories
             /\ ret' = [op |-> "forget", project |-> p, id |-> id, ok |-> FALSE,
                        message |-> "not found in project"]
        ELSE /\ memories' = [memories EXCEPT ![p] = RemoveAt(@, hit)]
             /\ ret' = [op |-> "forget", project |-> p, id |-> id,
                        ok |-> Cardinality(hit) > 0,
                        message |-> IF Cardinality(hit) > 0
                                    THEN "Memory deleted successfully"
                                    ELSE "Memory not found"]

(***************************************************************************)
(* MemoryDatabase.cleanupExpired(): one tick of the hourly timer.          *)
(***************************************************************************)
\* a DELETE that matches every row with an expiry time
HasExpiry(row, t) == IsSome(row.expires_at)

\* DELETE FROM memories WHERE expires_at < ? (a NULL expires_at never matches)
Expired(row, t) == IsSome(row.expires_at) /\ row.expires_at[1] < t

\* the positions of the rows of project p's table that the DELETE matches
ExpiredRows(p) == {i \in 1..Len(memories[p]) : Expired(memories[p][i], now)}

\* the sweep on a table that all projects share
CleanupExpiredAllProjects(p) ==
  /\ UNCHANGED <<now, cvars, broker, server>>
  /\ memories' = [q \in Projects |-> RemoveAt(memories[q], ExpiredRows(q))]
  /\ ret' = [op |-> "sweep", project |-> p, changes |-> Cardinality(ExpiredRows(p))]

CleanupExpired(p) ==
  /\ UNCHANGED <<now, cvars, broker, server>>
  /\ LET hit == {i \in 1..Len(memories[p]) : Expired(memories[p][i], now)}
     IN /\ memories' = [memories EXCEPT ![p] = RemoveAt(@, hit)]
        /\ ret' = [op |-> "sweep", project |-> p, changes |-> Cardinality(hit)]


(***************************************************************************)
(* The full-text index mem_fts (fts5, tokenize = 'porter unicode61') over  *)
(* the columns summary, text and tags.                                     *)
(***************************************************************************)
\* unicode61: a token character is a letter or a digit ('_' separates)
IsTokenChar(c) ==
  c \in {LowerLetters[i] : i \in 1..26} \cup {UpperLetters[i] : i \in 1..26}
          \cup {Digits[i] : i \in 1..10}

\* the length of the first run of token characters of s
RECURSIVE TokenLen(_)
TokenLen(s) ==
  IF s = <<>> \/ ~IsTokenChar(Head(s)) THEN 0 ELSE 1 + TokenLen(Tail(s))

\* the porter stemmer: the words of the model's vocabulary carry no suffix
\* the stemmer strips, so each is its own stem
PorterStem(tok) == tok

\* the tokens of a text: maximal runs of token characters, folded to lower case
RECURSIVE Tokenize(_)
RECURSIVE TokenizeAt(_, _)
Tokenize(s) == IF s = <<>> THEN <<>> ELSE TokenizeAt(s, TokenLen(s))

\* the tokens of a text that starts with n token characters
TokenizeAt(s, n) ==
  IF n = 0 THEN Tokenize(Tail(s))
  ELSE <<PorterStem(ToLowerCase(SubSeq(s, 1, n)))>>
         \o Tokenize(SubSeq(s, n + 1, Len(s)))

\* the value the triggers index for column tags: group_concat(value, ' ')
TagsColumn(tags) == Join(tags, <<" ">>)

\* the number of places where phrase occurs in the token sequence toks
Occurrences(toks, phrase) ==
  IF phrase = <<>> THEN 0
  ELSE Cardinality({i \in 1..(Len(toks) - Len(phrase) + 1) :
                       SubSeq(toks, i, i + Len(phrase) - 1) = phrase})

\* phrase frequency of a row, over its three columns
PhraseFreq(row, phrase) ==
  Occurrences(Tokenize(row.summary), phrase)
    + Occurrences(Tokenize(row.text), phrase)
    + Occurrences(Tokenize(TagsColumn(row.tags)), phrase)

\* the number of tokens of a row
DocLen(row) ==
  Len(Tokenize(row.summary)) + Len(Tokenize(row.text))
    + Len(Tokenize(TagsColumn(row.tags)))

RECURSIVE SumDocLen(_)
SumDocLen(rows) ==
  IF rows = <<>> THEN 0 ELSE DocLen(Head(rows)) + SumDocLen(Tail(rows))

\* s.replace(/["]/g, '""')
RECURSIVE DoubleQuotes(_)
DoubleQuotes(s) ==
  IF s = <<>> THEN <<>>
  ELSE IF Head(s) = "\""
       THEN <<"\"", "\"">> \o DoubleQuotes(Tail(s))
       ELSE <<Head(s)>> \o DoubleQuotes(Tail(s))

\* escapeQuery(query)
\* a query handed to MATCH as it was given
unescapedQuery(query) == query

\* the query wrapped in double quotes when cleaning changed it or it holds
\* a space
QuoteIfChanged(cleaned, query) ==
  IF cleaned # query \/ HasChar(cleaned, " ")
  THEN <<"\"">> \o cleaned \o <<"\"">>
  ELSE cleaned

escapeQuery(query) ==
  QuoteIfChanged(Trim(CollapseSpaces(ReplaceSpecial(DoubleQuotes(query)))), query)

\* the words FTS5 reads as operators when they stand unquoted
FtsKeywords == {<<"A", "N", "D">>, <<"O", "R">>, <<"N", "O", "T">>}

\* FTS5's reading of a MATCH argument: a quoted string is a phrase, an
\* unquoted run of [A-Za-z0-9_] that is no operator is a phrase too, anything
\* else (the empty string, a lone operator) is a syntax error
FtsParse(m) ==
  IF Len(m) >= 2 /\ m[1] = "\"" /\ m[Len(m)] = "\""
       /\ ~HasChar(SubSeq(m, 2, Len(m) - 1), "\"")
  THEN [error |-> FALSE, phrase |-> Tokenize(SubSeq(m, 2, Len(m) - 1))]
  ELSE IF m # <<>> /\ (\A i \in 1..Len(m) : IsWordChar(m[i])) /\ m \notin FtsKeywords
  THEN [error |-> FALSE, phrase |-> Tokenize(m)]
  ELSE [error |-> TRUE, phrase |-> <<>>]

\* bm25(mem_fts) of a matching row, negated, in millionths and without the
\* factor idf (one positive number for all rows of a one-phrase query):
\* 2.2 tf / (tf + 1.2 (0.25 + 0.75 len / avgLen)), avgLen = total / n
Bm25Of(tf, total, n, len) ==
  (22000000 * tf * total) \div (10 * tf * total + 3 * total + 9 * n * len)

Bm25(row, phrase, rows) ==
  Bm25Of(PhraseFreq(row, phrase), SumDocLen(rows), Len(rows), DocLen(row))

(***************************************************************************)
(* SQL LIKE: case-insensitive for ASCII letters, % matches any run, _ any  *)
(* one character.                                                          *)
(***************************************************************************)
RECURSIVE Like(_, _)
Like(value, pattern) ==
  IF pattern = <<>> THEN value = <<>>
  ELSE IF Head(pattern) = "%"
       THEN \E i \in 0..Len(value) :
              Like(SubSeq(value, i + 1, Len(value)), Tail(pattern))
  ELSE IF value = <<>> THEN FALSE
  ELSE /\ Head(pattern) = "_" \/ LowerChar(Head(pattern)) = LowerChar(Head(value))
       /\ Like(Tail(value), Tail(pattern))


(***************************************************************************)
(* Result lists.                                                           *)
(***************************************************************************)
\* lexicographic order of two equally long sequences of integers
RECURSIVE KeyGreater(_, _)
KeyGreater(a, b) ==
  IF a = <<>> \/ b = <<>> THEN FALSE
  ELSE IF Head(a) # Head(b) THEN Head(a) > Head(b)
  ELSE KeyGreater(Tail(a), Tail(b))

\* stable insertion of x into a sequence of records ordered by field key,
\* greatest first
RECURSIVE InsertDesc(_, _)
InsertDesc(x, sorted) ==
  IF sorted = <<>> THEN <<x>>
  ELSE IF KeyGreater(x.key, Head(sorted).key) THEN <<x>> \o sorted
  ELSE <<Head(sorted)>> \o InsertDesc(x, Tail(sorted))

\* ORDER BY key DESC: a stable sort, rows with equal keys keep their order
RECURSIVE SortDesc(_)
SortDesc(s) ==
  IF s = <<>> THEN <<>>
  ELSE InsertDesc(s[Len(s)], SortDesc(SubSeq(s, 1, Len(s) - 1)))

\* LIMIT k
Limit(s, k) == SubSeq(s, 1, IF k < Len(s) THEN k ELSE Len(s))

\* words.filter(word => word.length > 2)
LongWords(words) == SelectSeq(words, LAMBDA w : Len(w) > 2)

\* terms of the query that look like paths: they hold '/', '\' or '.'
PathTerms(q) ==
  SelectSeq(SplitSpaces(q), LAMBDA w : HasChar(w, "/") \/ HasChar(w, "\\") \/ HasChar(w, "."))

\* ORDER BY fts_score DESC, m.importance DESC, m.created_at DESC; fts_score
\* is bm25(mem_fts), the negative of the score returned
SearchOrderKey(row, score) == <<0 - score, TwiceImportance(row), row.created_at>>

(***************************************************************************)
(* MemoryDatabase.executeSearch(params) at time t.  The result is          *)
(* [threw, results]: threw when the MATCH argument does not parse.         *)
(***************************************************************************)
\* the WHERE clause of the search statement, for one row
SearchSelected(row, p, params, t, phrase, terms) ==
  /\ PhraseFreq(row, phrase) > 0
  /\ row.project_id = p
  /\ params.include_expired
       \/ ~IsSome(row.expires_at) \/ row.expires_at[1] > t
  /\ IsSome(params.tags) /\ params.tags[1] # <<>>
       => \E i \in 1..Len(row.tags), j \in 1..Len(params.tags[1]) :
            row.tags[i] = params.tags[1][j]
  /\ params.require_path_match
       => \E j \in 1..Len(terms), i \in 1..Len(row.paths) :
            Like(row.paths[i], <<"%">> \o terms[j] \o <<"%">>)

\* the selected rows with their score and their place in the ORDER BY
SearchScored(hits, phrase, rows) ==
  [i \in 1..Len(hits) |->
     [memory |-> rowToMemory(hits[i]),
      score |-> Bm25(hits[i], phrase, rows),
      key |-> SearchOrderKey(hits[i], Bm25(hits[i], phrase, rows))]]

\* rows.map(row => ({ memory: this.rowToMemory(row), score: -row.fts_score }))
SearchResults(ordered) ==
  [i \in 1..Len(ordered) |->
     [memory |-> ordered[i].memory, score |-> ordered[i].score]]

\* the statement run on the parsed MATCH argument and the path terms
SearchStatement(p, params, t, parsed, terms, rows) ==
  IF params.require_path_match /\ terms = <<>>
  THEN [threw |-> FALSE, results |-> <<>>]
  ELSE IF parsed.error
  THEN [threw |-> TRUE, results |-> <<>>]
  ELSE [threw |-> FALSE,
        results |-> SearchResults(Limit(SortDesc(SearchScored(
                      SelectSeq(rows, LAMBDA row :
                        SearchSelected(row, p, params, t, parsed.phrase, terms)),
                      parsed.phrase, rows)), OrDefault(params.k, DefaultK)))]

executeSearch(p, params, t) ==
  SearchStatement(p, params, t, FtsParse(escapeQuery(params.q)),
                  PathTerms(params.q), memories[p])


(***************************************************************************)
(* The fallback cascade.  A stage is one call of executeSearch inside its  *)
(* try block; its record holds the stage number, the query handed to       *)
(* executeSearch, whether the call threw (the catch block swallows it),    *)
(* and its results.                                                        *)
(***************************************************************************)
StageRecord(n, q, r) ==
  [stage |-> n, q |-> q, threw |-> r.threw, results |-> r.results]

Stage(n, p, params, q, t) ==
  StageRecord(n, q, executeSearch(p, [params EXCEPT !.q = q], t))

\* params.q.replace(/[^\w\s]/g, ' ').replace(/\s+/g, ' ').trim()
FallbackQuery(q) == Trim(CollapseSpaces(ReplaceSpecial(q)))

\* a split that keeps the short words
AllWords(q) == SplitSpaces(q)

\* params.q.split(/\s+/).filter(word => word.length > 2)
QueryWords(q) == LongWords(SplitSpaces(q))

\* words.join(' OR ')
OrQuery(words) == Join(words, <<" ", "O", "R", " ">>)

(***************************************************************************)
(* MemoryDatabase.search(params) at time t: [results, calls, raised];      *)
(* calls are the stages executed, in order, and raised tells whether an    *)
(* exception left the call.                                                *)
(***************************************************************************)
\* a cascade that runs the primary query once more before its fallbacks
CallsWithRetry(n, q, words, s1, s2, s3, s4) ==
  <<s1>>
    \o (IF n >= 2 THEN <<s1>> ELSE <<>>)
    \o (IF n >= 2 /\ HasSpecial(q) THEN <<s2>> ELSE <<>>)
    \o (IF n >= 3 /\ Len(words) > 1 THEN <<s3>> ELSE <<>>)
    \o (IF n >= 4 /\ Len(words) > 0 THEN <<s4>> ELSE <<>>)

\* the stages executed when the cascade ends at stage n: stage 2 runs for a
\* query with special characters, stage 3 for more than one word, stage 4 for
\* at least one
CallsUpTo(n, q, words, s1, s2, s3, s4) ==
  <<s1>>
    \o (IF n >= 2 /\ HasSpecial(q) THEN <<s2>> ELSE <<>>)
    \o (IF n >= 3 /\ Len(words) > 1 THEN <<s3>> ELSE <<>>)
    \o (IF n >= 4 /\ Len(words) > 0 THEN <<s4>> ELSE <<>>)

\* a search that runs the primary query outside any try block
searchUnguardedFrom(s1) ==
  [results |-> s1.results, calls |-> <<s1>>, raised |-> s1.threw]

searchUnguarded(p, params, t) ==
  searchUnguardedFrom(Stage(1, p, params, params.q, t))

\* the body of search on the outcomes s1..s4 of its four try blocks; an
\* outcome is looked at only where the code runs its stage
searchFrom(q, words, s1, s2, s3, s4) ==
  IF ~s1.threw /\ Len(s1.results) > 0
  THEN [results |-> s1.results, raised |-> FALSE,
        calls |-> CallsUpTo(1, q, words, s1, s2, s3, s4)]
  ELSE IF HasSpecial(q) /\ ~s2.threw /\ Len(s2.results) > 0
  THEN [results |-> s2.results, raised |-> FALSE,
        calls |-> CallsUpTo(2, q, words, s1, s2, s3, s4)]
  ELSE IF Len(words) > 1 /\ ~s3.threw /\ Len(s3.results) > 0
  THEN [results |-> s3.results, raised |-> FALSE,
        calls |-> CallsUpTo(3, q, words, s1, s2, s3, s4)]
  ELSE IF Len(words) > 0 /\ ~s4.threw
  THEN [results |-> s4.results, raised |-> FALSE,
        calls |-> CallsUpTo(4, q, words, s1, s2, s3, s4)]
  ELSE [results |-> <<>>, raised |-> FALSE,
        calls |-> CallsUpTo(4, q, words, s1, s2, s3, s4)]

search(p, params, t) ==
  searchFrom(params.q, QueryWords(params.q),
             Stage(1, p, params, params.q, t),
             Stage(2, p, params, FallbackQuery(params.q), t),
             Stage(3, p, params, OrQuery(QueryWords(params.q)), t),
             Stage(4, p, params, QueryWords(params.q)[1], t))

(***************************************************************************)
(* MemoryDatabase.searchWithDebug(params) at time t.  fallback_used is     *)
(* None when the primary search answered.                                  *)
(***************************************************************************)
getTotalMemoryCount(p) ==
  Cardinality({i \in 1..Len(memories[p]) : memories[p][i].project_id = p})

\* a search whose debug information stops at the original query
searchWithoutTraceFrom(p, q, found) ==
  [results |-> found.results, calls |-> found.calls, raised |-> found.raised,
   original_query |-> q, queries_tried |-> <<q>>,
   fallback_used |-> None,
   total_memories_scanned |-> getTotalMemoryCount(p)]

searchWithoutTrace(p, params, t) ==
  searchWithoutTraceFrom(p, params.q, search(p, params, t))

\* debugInfo.queries_tried: the query of each stage executed
QueriesTried(calls) == [i \in 1..Len(calls) |-> calls[i].q]

\* { results, debug_info } together with the stages executed
DebugResult(p, q, results, calls, fallback) ==
  [results |-> results, calls |-> calls, raised |-> FALSE,
   original_query |-> q, queries_tried |-> QueriesTried(calls),
   fallback_used |-> fallback,
   total_memories_scanned |-> getTotalMemoryCount(p)]

\* the body of searchWithDebug on the outcomes s1..s4 of its four try blocks
searchWithDebugFrom(p, q, words, s1, s2, s3, s4) ==
  IF ~s1.threw /\ Len(s1.results) > 0
  THEN DebugResult(p, q, s1.results, CallsUpTo(1, q, words, s1, s2, s3, s4), None)
  ELSE IF HasSpecial(q) /\ ~s2.threw /\ Len(s2.results) > 0
  THEN DebugResult(p, q, s2.results, CallsUpTo(2, q, words, s1, s2, s3, s4),
                   Some("removed_special_chars"))
  ELSE IF Len(words) > 1 /\ ~s3.threw /\ Len(s3.results) > 0
  THEN DebugResult(p, q, s3.results, CallsUpTo(3, q, words, s1, s2, s3, s4),
                   Some("or_search"))
  ELSE IF Len(words) > 0 /\ ~s4.threw
  THEN DebugResult(p, q, s4.results, CallsUpTo(4, q, words, s1, s2, s3, s4),
                   Some("broad_search"))
  ELSE DebugResult(p, q, <<>>, CallsUpTo(4, q, words, s1, s2, s3, s4),
                   Some("all_failed"))

\* a searchWithDebug whose second fallback never answers
searchWithDebugPastOr(p, params, t) ==
  searchWithDebugFrom(p, params.q, QueryWords(params.q),
                      Stage(1, p, params, params.q, t),
                      Stage(2, p, params, FallbackQuery(params.q), t),
                      [Stage(3, p, params, OrQuery(QueryWords(params.q)), t)
                         EXCEPT !.threw = TRUE, !.results = <<>>],
                      Stage(4, p, params, QueryWords(params.q)[1], t))

searchWithDebug(p, params, t) ==
  searchWithDebugFrom(p, params.q, QueryWords(params.q),
                      Stage(1, p, params, params.q, t),
                      Stage(2, p, params, FallbackQuery(params.q), t),
                      Stage(3, p, params, OrQuery(QueryWords(params.q)), t),
                      Stage(4, p, params, QueryWords(params.q)[1], t))

(***************************************************************************)
(* MemoryDatabase.getRecent(params) at time t.                             *)
(***************************************************************************)
\* a getRecent whose statement lacks the expiry condition
RecentSelectedWithExpired(row, p, params, t) ==
  /\ row.project_id = p
  /\ IsSome(params.path_prefix) /\ params.path_prefix[1] # <<>>
       => \E i \in 1..Len(row.paths) :
            Like(row.paths[i], params.path_prefix[1] \o <<"%">>)

\* the WHERE clause of getRecent, for one row
RecentSelected(row, p, params, t) ==
  /\ row.project_id = p
  /\ params.include_expired
       \/ ~IsSome(row.expires_at) \/ row.expires_at[1] > t
  /\ IsSome(params.path_prefix) /\ params.path_prefix[1] # <<>>
       => \E i \in 1..Len(row.paths) :
            Like(row.paths[i], params.path_prefix[1] \o <<"%">>)

\* the selected rows under their place in ORDER BY created_at DESC
RecentKeyed(hits) ==
  [i \in 1..Len(hits) |->
     [memory |-> rowToMemory(hits[i]), key |-> <<hits[i].created_at>>]]

\* rows.map(row => this.rowToMemory(row))
RecentMemories(ordered) == [i \in 1..Len(ordered) |-> ordered[i].memory]

getRecent(p, params, t) ==
  RecentMemories(Limit(SortDesc(RecentKeyed(
      SelectSeq(memories[p], LAMBDA row : RecentSelected(row, p, params, t)))),
    OrDefault(params.k, DefaultK)))

(***************************************************************************)
(* MemoryDatabase.get(id): None is null.                                   *)
(***************************************************************************)
get(p, id) ==
  LET hit == RowsWithId(p, id)
  IN IF hit = {} THEN None ELSE Some(rowToMemory(memories[p][Min(hit)]))

(***************************************************************************)
(* MemoryDatabase.getMultiple(ids).  The result is an object literal: its  *)
(* own keys are the domain of the function.  Assigning to the key          *)
(* '__proto__' of an object literal sets its prototype and creates no own  *)
(* property.                                                               *)
(***************************************************************************)
\* the id '__proto__'; an id of generateId is a pair
ProtoKey == <<"__proto__">>

\* the own keys after ids.forEach(id => { result[id] = null })
OwnKeys(ids) == {ids[i] : i \in 1..Len(ids)} \ {ProtoKey}

getMultiple(p, ids) ==
  [id \in OwnKeys(ids) |->
     IF RowsWithId(p, id) = {} THEN None
     ELSE Some(rowToMemory(memories[p][Min(RowsWithId(p, id))]))]

(***************************************************************************)
(* The calls as actions: a read leaves the store as it is.                 *)
(***************************************************************************)
Search(p, params) ==
  /\ ret' = [op |-> "search", project |-> p, params |-> params, at |-> now,
             out |-> search(p, params, now)]
  /\ UNCHANGED <<memories, now, cvars, broker, server>>

SearchWithDebug(p, params) ==
  /\ ret' = [op |-> "searchWithDebug", project |-> p, params |-> params, at |-> now,
             out |-> searchWithDebug(p, params, now)]
  /\ UNCHANGED <<memories, now, cvars, broker, server>>

GetRecent(p, params) ==
  /\ ret' = [op |-> "getRecent", project |-> p, params |-> params, at |-> now,
             out |-> getRecent(p, params, now)]
  /\ UNCHANGED <<memories, now, cvars, broker, server>>

Get(p, id) ==
  /\ ret' = [op |-> "get", project |-> p, id |-> id, out |-> get(p, id)]
  /\ UNCHANGED <<memories, now, cvars, broker, server>>

GetMultiple(p, ids) ==
  /\ ret' = [op |-> "getMultiple", project |-> p, ids |-> ids,
             out |-> getMultiple(p, ids)]
  /\ UNCHANGED <<memories, now, cvars, broker, server>>


(***************************************************************************)
(* ContextBroker: the helpers of preview.  A score is a number of the      *)
(* code in millionths, rounded down.                                       *)
(***************************************************************************)
ScoreUnit == 1000000

\* milliseconds in an hour: 1000 * 60 * 60
HourMs == 3600000

\* the defaults of preview's parameters
DefaultBudgetBytes == 2048

DefaultTopK == 10

\* the number of candidates preview asks the memory search for
PreviewK == 50

\* extractSearchTerms keeps the first MaxKeywords words
MaxKeywords == 5

\* o for a given parameter, d for an omitted one (a destructuring default)
OrUndefined(o, d) == IF IsSome(o) THEN o[1] ELSE d

\* the greatest element of a non-empty set of integers
Max(S) == CHOOSE x \in S : \A y \in S : y <= x

\* the length of the first run of characters of s other than sep
RECURSIVE RunLen(_, _)
RunLen(s, sep) ==
  IF s = <<>> \/ Head(s) = sep THEN 0 ELSE 1 + RunLen(Tail(s), sep)

\* s.split(sep) for a one-character separator
RECURSIVE Split(_, _)
RECURSIVE SplitAt(_, _, _)
Split(s, sep) == SplitAt(s, sep, RunLen(s, sep))

\* the split of s whose first part has length n
SplitAt(s, sep, n) ==
  IF n = Len(s) THEN <<s>>
  ELSE <<SubSeq(s, 1, n)>> \o Split(SubSeq(s, n + 2, Len(s)), sep)

\* s.replace(/\*$/, '')
StripStar(s) ==
  IF s # <<>> /\ s[Len(s)] = "*" THEN SubSeq(s, 1, Len(s) - 1) ELSE s

\* s.endsWith('*')
EndsWithStar(s) == s # <<>> /\ s[Len(s)] = "*"

\* Buffer.byteLength(s, 'utf8'): every character of the model is ASCII
ByteLength(s) == Len(s)

\* file.split('/').filter(Boolean)
PathParts(file) == SelectSeq(Split(file, "/"), LAMBDA x : x # <<>>)

\* '/' + parts.slice(0, i).join('/')
PrefixOf(parts, i) == <<"/">> \o Join(SubSeq(parts, 1, i), <<"/">>)

\* the prefixes of one file: the paths '/' + its first i segments, and the
\* same followed by '/*' for the proper prefixes
FilePrefixes(parts) ==
  {PrefixOf(parts, i) : i \in 1..Len(parts)}
    \cup {PrefixOf(parts, i) \o <<"/", "*">> : i \in 1..(Len(parts) - 1)}

\* the prefixes of the open files
inferPathPrefixes(openFiles) ==
  UNION { FilePrefixes(PathParts(openFiles[f])) : f \in 1..Len(openFiles) }

\* the strength of two paths stripped of their trailing star
CleanMatch(memPathClean, prefixClean) ==
  IF memPathClean = prefixClean THEN ScoreUnit
  ELSE IF StartsWith(prefixClean, memPathClean) \/ StartsWith(memPathClean, prefixClean)
  THEN (ScoreUnit * Min({Len(memPathClean), Len(prefixClean)}))
         \div Max({Len(memPathClean), Len(prefixClean)})
  ELSE 0

\* the strength of one memory path against one prefix
PairMatch(memPath, prefix) == CleanMatch(StripStar(memPath), StripStar(prefix))

pathMatchStrength(memoryPaths, prefixes) ==
  IF Len(memoryPaths) = 0 \/ prefixes = {} THEN 0
  ELSE Max({PairMatch(memoryPaths[i], pre) : i \in 1..Len(memoryPaths), pre \in prefixes})

\* pathMatchStrength(...) > 0.3
hasPathMatch(memoryPaths, prefixes) ==
  10 * pathMatchStrength(memoryPaths, prefixes) > 3 * ScoreUnit

stopWords ==
  { <<"t", "h", "e">>,
    <<"a">>,
    <<"a", "n">>,
    <<"a", "n", "d">>,
    <<"o", "r">>,
    <<"b", "u", "t">>,
    <<"i", "n">>,
    <<"o", "n">>,
    <<"a", "t">>,
    <<"t", "o">>,
    <<"f", "o", "r">>,
    <<"o", "f">>,
    <<"w", "i", "t", "h">>,
    <<"b", "y">>,
    <<"f", "r", "o", "m">>,
    <<"u", "p">>,
    <<"a", "b", "o", "u", "t">>,
    <<"i", "n", "t", "o">>,
    <<"t", "h", "r", "o", "u", "g", "h">>,
    <<"d", "u", "r", "i", "n", "g">>,
    <<"h", "o", "w">>,
    <<"w", "h", "e", "n">>,
    <<"w", "h", "e", "r", "e">>,
    <<"w", "h", "y">>,
    <<"w", "h", "a", "t">>,
    <<"w", "h", "i", "c", "h">>,
    <<"w", "h", "o">>,
    <<"w", "h", "o", "m">>,
    <<"t", "h", "i", "s">>,
    <<"t", "h", "a", "t">>,
    <<"t", "h", "e", "s", "e">>,
    <<"t", "h", "o", "s", "e">>,
    <<"a", "m">>,
    <<"i", "s">>,
    <<"a", "r", "e">>,
    <<"w", "a", "s">>,
    <<"w", "e", "r", "e">>,
    <<"b", "e">>,
    <<"b", "e", "e", "n">>,
    <<"b", "e", "i", "n", "g">>,
    <<"h", "a", "v", "e">>,
    <<"h", "a", "s">>,
    <<"h", "a", "d">>,
    <<"d", "o">>,
    <<"d", "o", "e", "s">>,
    <<"d", "i", "d">>,
    <<"w", "i", "l", "l">>,
    <<"w", "o", "u", "l", "d">>,
    <<"s", "h", "o", "u", "l", "d">>,
    <<"c", "o", "u", "l", "d">>,
    <<"m", "a", "y">>,
    <<"m", "i", "g", "h", "t">>,
    <<"m", "u", "s", "t">>,
    <<"c", "a", "n">>,
    <<"n", "e", "e", "d">>,
    <<"n", "e", "w">>,
    <<"c", "r", "e", "a", "t", "e">>,
    <<"i", "m", "p", "l", "e", "m", "e", "n", "t">>,
    <<"f", "i", "x">>,
    <<"u", "p", "d", "a", "t", "e">>,
    <<"a", "d", "d">>,
    <<"r", "e", "m", "o", "v", "e">>,
    <<"c", "h", "a", "n", "g", "e">>,
    <<"m", "o", "d", "i", "f", "y">> }

\* the words of the task longer than two characters that are no stop words
KeptWords(task) ==
  SelectSeq(SplitSpaces(ToLowerCase(task)),
            LAMBDA word : Len(word) > 2 /\ word \notin stopWords)

\* the query built from the first keywords
TermsQuery(words, task) ==
  IF Len(words) = 1 THEN words[1] \o <<"*">>
  ELSE IF Len(words) > 0 THEN Join(words, <<" ", "O", "R", " ">>)
  ELSE task

extractSearchTerms(task) == TermsQuery(Limit(KeptWords(task), MaxKeywords), task)

\* whether a lower-cased tag matches one word of the task
WordMatch(tagLower, word) ==
  \/ Includes(tagLower, word)
  \/ Includes(word, tagLower)
  \/ /\ Len(word) >= 3
     /\ Len(tagLower) >= 3
     /\ SubSeq(word, 1, Min({Len(word), Len(tagLower)}))
          = SubSeq(tagLower, 1, Min({Len(word), Len(tagLower)}))

TagMatchesLower(tagLower, taskWords) ==
  \E w \in 1..Len(taskWords) : WordMatch(tagLower, taskWords[w])

\* whether a tag matches some word of the task
TagMatches(tag, taskWords) == TagMatchesLower(ToLowerCase(tag), taskWords)

\* the number of tags that match
TagMatchCount(tags, taskWords) ==
  Cardinality({i \in 1..Len(tags) : TagMatches(tags[i], taskWords)})

taskMatchStrength(tags, task) ==
  IF Len(tags) > 0
  THEN (ScoreUnit * TagMatchCount(tags, SplitSpaces(ToLowerCase(task)))) \div Len(tags)
  ELSE 0

\* the score of an age in whole hours
AgeScore(ageHours) ==
  IF ageHours < 24 THEN ScoreUnit
  ELSE IF ageHours < 168 THEN (8 * ScoreUnit) \div 10
  ELSE IF ageHours < 720 THEN (5 * ScoreUnit) \div 10
  ELSE (2 * ScoreUnit) \div 10

\* recencyScore(createdAt) at time t; the age in whole hours is below a
\* whole number of hours exactly when the age is
recencyScore(createdAt, t) == AgeScore((t - createdAt) \div HourMs)

formatMemoryForInjection(memory) ==
  Join(<< <<"#", "#", " ">> \o memory.summary, memory.text >>
         \o (IF Len(memory.paths) > 0
             THEN << <<"*", "*", "P", "a", "t", "h", "s", ":", "*", "*", " ">> \o Join(memory.paths, <<",", " ">>) >> ELSE <<>>)
         \o (IF Len(memory.tags) > 0
             THEN << <<"*", "*", "T", "a", "g", "s", ":", "*", "*", " ">> \o Join(memory.tags, <<",", " ">>) >> ELSE <<>>),
       <<"\n", "\n">>)

formatConceptForInjection(concept) ==
  <<"#", "#", " ">> \o concept.title \o <<"\n", "\n">> \o concept.body \o <<"\n", "\n", "*", "*", "T", "a", "g", "s", ":", "*", "*", " ">>
    \o Join(concept.tags, <<",", " ">>)

\* a key that only folds the case
lowercaseOnly(summary) == ToLowerCase(summary)

normalizeForDedupe(summary) ==
  Trim(CollapseSpaces(RemoveSpecial(ToLowerCase(summary))))


(***************************************************************************)
(* ContextBroker.scoreMemories: one injection per search result, in the    *)
(* order of the results.                                                   *)
(***************************************************************************)
\* Math.min(result.score / 10, 1.0)
CappedScore(score) == IF score \div 10 < ScoreUnit THEN score \div 10 ELSE ScoreUnit

\* the sum of the score's terms
ScoreSum(memory, isSingleWord, pathScore, tagScore, twiceImportance, capped, p, t) ==
  (IF memory.project_id = p THEN (15 * ScoreUnit) \div 10 ELSE 0)
  + (IF isSingleWord /\ pathScore > 0
     THEN 10 * pathScore
     ELSE 2 * pathScore + (IF 2 * pathScore > ScoreUnit THEN 2 * ScoreUnit ELSE 0))
  + (8 * tagScore) \div 10
  + (IF isSingleWord /\ tagScore > 0 THEN 3 * ScoreUnit ELSE 0)
  + (6 * recencyScore(memory.created_at, t)) \div 10
  + (3 * twiceImportance * ScoreUnit) \div 10
  - (IF memory.project_id # p THEN ScoreUnit ELSE 0)
  + capped

MemoryScore(result, pathPrefixes, task, p, t) ==
  ScoreSum(result.memory,
           Len(LongWords(SplitSpaces(ToLowerCase(task)))) = 1,
           pathMatchStrength(result.memory.paths, pathPrefixes),
           taskMatchStrength(result.memory.tags, task),
           IF TwiceImportance(result.memory) # 0 THEN TwiceImportance(result.memory)
                                                 ELSE 2 * DefaultImportance,
           CappedScore(result.score), p, t)

\* the injection of one memory
MemoryInjection(memory, content, score) ==
  [id |-> memory.id, type |-> "memory", summary |-> memory.summary,
   content |-> content, score |-> score,
   source |-> <<memory.project_id, memory.id>>,
   byteSize |-> ByteLength(content)]

scoreMemories(results, pathPrefixes, task, p, t) ==
  [i \in 1..Len(results) |->
     MemoryInjection(results[i].memory,
                     formatMemoryForInjection(results[i].memory),
                     MemoryScore(results[i], pathPrefixes, task, p, t))]

(***************************************************************************)
(* ContextBroker.scoreConcepts.                                            *)
(***************************************************************************)
ConceptScore(result, task) ==
  2 * ScoreUnit
  + (8 * taskMatchStrength(result.concept.tags, task)) \div 10
  + (6 * result.concept.importance * ScoreUnit) \div 10
  + CappedScore(result.score)

\* the injection of one concept
ConceptInjection(concept, content, score) ==
  [id |-> concept.id, type |-> "concept", summary |-> concept.title,
   content |-> content, score |-> score,
   source |-> <<"global", concept.id>>,
   byteSize |-> ByteLength(content)]

scoreConcepts(results, task) ==
  [i \in 1..Len(results) |->
     ConceptInjection(results[i].concept,
                      formatConceptForInjection(results[i].concept),
                      ConceptScore(results[i], task))]

(***************************************************************************)
(* ContextBroker.selectByBudget: the loop over the candidates, carrying    *)
(* selected, budgetUsed and seen.                                          *)
(***************************************************************************)
RECURSIVE SelectLoop(_, _, _, _, _, _)
SelectLoop(candidates, selected, budgetUsed, seen, budgetLimit, topK) ==
  IF candidates = <<>> THEN selected
  ELSE IF Len(selected) >= topK THEN selected
  ELSE IF budgetUsed + Head(candidates).byteSize > budgetLimit THEN selected
  ELSE IF normalizeForDedupe(Head(candidates).summary) \in seen
  THEN SelectLoop(Tail(candidates), selected, budgetUsed, seen, budgetLimit, topK)
  ELSE SelectLoop(Tail(candidates), Append(selected, Head(candidates)),
                  budgetUsed + Head(candidates).byteSize,
                  seen \cup {normalizeForDedupe(Head(candidates).summary)},
                  budgetLimit, topK)

\* a selection whose loop never sees the budget exhausted
selectByTopKOnly(candidates, budgetLimit, topK) ==
  SelectLoop(candidates, <<>>, 0, {}, budgetLimit + DefaultBudgetBytes, topK)

selectByBudget(candidates, budgetLimit, topK) ==
  SelectLoop(candidates, <<>>, 0, {}, budgetLimit, topK)

\* array.reduce((sum, inj) => sum + inj.byteSize, 0)
RECURSIVE SumByteSize(_)
SumByteSize(injections) ==
  IF injections = <<>> THEN 0
  ELSE Head(injections).byteSize + SumByteSize(Tail(injections))

(***************************************************************************)
(* ConceptStore: the tables concepts and project_allowlists of one         *)
(* database file concepts.db, and the full-text index concept_fts (fts5,   *)
(* tokenize = 'porter unicode61') over the columns title and body.  A      *)
(* store is [concepts, allowlists]: the rows of the two tables in rowid    *)
(* order.                                                                  *)
(***************************************************************************)
\* params.k || 10 of ConceptStore.search
ConceptDefaultK == 10

\* the normalized wildcard query
Star == <<"*">>

\* ConceptStore.generateConceptId: the decimal digits of a number
RECURSIVE Decimal(_)
Decimal(n) ==
  IF n < 10 THEN <<Digits[n + 1]>> ELSE Decimal(n \div 10) \o <<Digits[(n % 10) + 1]>>

\* s without its leading characters other than a-z and 0-9
RECURSIVE DropNonSlug(_)
DropNonSlug(s) ==
  IF s # <<>> /\ ~IsLowerLetter(Head(s)) /\ ~IsDigit(Head(s))
  THEN DropNonSlug(Tail(s)) ELSE s

\* s.replace(/[^a-z0-9]+/g, '-')
RECURSIVE Slug(_)
Slug(s) ==
  IF s = <<>> THEN <<>>
  ELSE IF IsLowerLetter(Head(s)) \/ IsDigit(Head(s))
       THEN <<Head(s)>> \o Slug(Tail(s))
       ELSE <<"-">> \o Slug(DropNonSlug(s))

\* s.replace(/^-|-$/g, '')
StripDashes(s) ==
  SubSeq(s, IF s # <<>> /\ Head(s) = "-" THEN 2 ELSE 1,
            IF Len(s) > 1 /\ s[Len(s)] = "-" THEN Len(s) - 1 ELSE Len(s))

\* generateConceptId(title) at time t: `${base}-v${Date.now() % 1000}`
generateConceptId(title, t) ==
  Limit(StripDashes(Slug(ToLowerCase(title))), 30) \o <<"-", "v">> \o Decimal(t % 1000)

\* a row of table concepts with its row of concept_fts, which the trigger
\* concept_fts_insert writes: the tokens of the columns title and body
ConceptRow(id, title, body, tags, importance, t) ==
  [id |-> id, title |-> title, body |-> body, tags |-> tags,
   importance |-> importance, created_at |-> t, updated_at |-> t,
   fts |-> <<Tokenize(title), Tokenize(body)>>]

\* seedInitialConcepts at time t: the five rows inserted into an empty table
\* (of each body the opening words)
seedInitialConcepts(t) ==
  << ConceptRow(<<"j", "w", "t", "-", "a", "u", "t", "h", "-", "v", "2">>, <<"J", "W", "T", " ", "A", "u", "t", "h", "e", "n", "t", "i", "c", "a", "t", "i", "o", "n", " ", "P", "a", "t", "t", "e", "r", "n">>, <<"S", "t", "a", "n", "d", "a", "r", "d", " ", "J", "W", "T", " ", "a", "u", "t", "h", " ", "f", "l", "o", "w">>,
                <<<<"j", "w", "t">>, <<"a", "u", "t", "h">>, <<"s", "e", "c", "u", "r", "i", "t", "y">>, <<"p", "a", "t", "t", "e", "r", "n">>>>, 5, t),
     ConceptRow(<<"s", "3", "-", "u", "p", "l", "o", "a", "d", "-", "c", "h", "e", "c", "k", "l", "i", "s", "t">>, <<"S", "3", " ", "U", "p", "l", "o", "a", "d", " ", "S", "e", "c", "u", "r", "i", "t", "y", " ", "C", "h", "e", "c", "k", "l", "i", "s", "t">>, <<"B", "e", "f", "o", "r", "e", " ", "S", "3", " ", "u", "p", "l", "o", "a", "d", "s">>,
                <<<<"s", "3">>, <<"a", "w", "s">>, <<"u", "p", "l", "o", "a", "d">>, <<"s", "e", "c", "u", "r", "i", "t", "y">>, <<"c", "h", "e", "c", "k", "l", "i", "s", "t">>>>, 5, t),
     ConceptRow(<<"r", "a", "t", "e", "-", "l", "i", "m", "i", "t", "e", "r", "-", "p", "a", "t", "t", "e", "r", "n">>, <<"A", "P", "I", " ", "R", "a", "t", "e", " ", "L", "i", "m", "i", "t", "i", "n", "g", " ", "P", "a", "t", "t", "e", "r", "n">>, <<"T", "o", "k", "e", "n", " ", "b", "u", "c", "k", "e", "t", " ", "a", "l", "g", "o", "r", "i", "t", "h", "m">>,
                <<<<"a", "p", "i">>, <<"r", "a", "t", "e", "-", "l", "i", "m", "i", "t">>, <<"s", "e", "c", "u", "r", "i", "t", "y">>, <<"p", "a", "t", "t", "e", "r", "n">>>>, 4, t),
     ConceptRow(<<"e", "r", "r", "o", "r", "-", "b", "o", "u", "n", "d", "a", "r", "y", "-", "r", "e", "a", "c", "t">>, <<"R", "e", "a", "c", "t", " ", "E", "r", "r", "o", "r", " ", "B", "o", "u", "n", "d", "a", "r", "y", " ", "P", "a", "t", "t", "e", "r", "n">>, <<"C", "a", "t", "c", "h", " ", "R", "e", "a", "c", "t", " ", "c", "o", "m", "p", "o", "n", "e", "n", "t", " ", "e", "r", "r", "o", "r", "s">>,
                <<<<"r", "e", "a", "c", "t">>, <<"e", "r", "r", "o", "r", "-", "h", "a", "n", "d", "l", "i", "n", "g">>, <<"p", "a", "t", "t", "e", "r", "n">>, <<"f", "r", "o", "n", "t", "e", "n", "d">>>>, 4, t),
     ConceptRow(<<"d", "b", "-", "m", "i", "g", "r", "a", "t", "i", "o", "n", "-", "s", "a", "f", "e", "t", "y">>, <<"S", "a", "f", "e", " ", "D", "a", "t", "a", "b", "a", "s", "e", " ", "M", "i", "g", "r", "a", "t", "i", "o", "n", " ", "C", "h", "e", "c", "k", "l", "i", "s", "t">>, <<"S", "a", "f", "e", " ", "m", "i", "g", "r", "a", "t", "i", "o", "n", "s">>,
                <<<<"d", "a", "t", "a", "b", "a", "s", "e">>, <<"m", "i", "g", "r", "a", "t", "i", "o", "n">>, <<"s", "a", "f", "e", "t", "y">>, <<"c", "h", "e", "c", "k", "l", "i", "s", "t">>>>, 5, t) >>

\* new ConceptStore(projectId) at time t on a fresh file: initializeSchema
NewConceptStore(t) == [concepts |-> seedInitialConcepts(t), allowlists |-> <<>>]

\* rowToConcept(row)
rowToConcept(row) ==
  [id |-> row.id, title |-> row.title, body |-> row.body, tags |-> row.tags,
   importance |-> row.importance, created_at |-> row.created_at,
   updated_at |-> row.updated_at]

\* the positions of the rows with the given id (PRIMARY KEY: at most one)
ConceptsWithId(db, id) == {i \in 1..Len(db.concepts) : db.concepts[i].id = id}

\* ConceptStore.get(id): None is null
conceptGet(db, id) ==
  IF ConceptsWithId(db, id) = {} THEN None
  ELSE Some(rowToConcept(db.concepts[Min(ConceptsWithId(db, id))]))

\* normalizeSearchQuery(query)
normalizeSearchQuery(query) ==
  IF Trim(query) = <<>> THEN Star
  ELSE IF Trim(query) = Star \/ Trim(query) = <<"*", "*">> THEN Star
  ELSE DoubleQuotes(Trim(query))

\* a word of a MATCH argument that FTS5 reads as a phrase: a run of
\* [A-Za-z0-9_] that is no operator, with or without a final star
IsFtsTerm(w) ==
  /\ StripStar(w) # <<>>
  /\ \A i \in 1..Len(StripStar(w)) : IsWordChar(StripStar(w)[i])
  /\ StripStar(w) \notin FtsKeywords

FtsTerm(w) == [phrase |-> Tokenize(StripStar(w)), prefix |-> EndsWithStar(w)]

\* FTS5's reading of the MATCH argument of a concept search, for the forms
\* the callers of the model build: terms joined by spaces (all must match),
\* or terms joined by OR (one must match); anything else is a syntax error
ConceptFtsWords(words) ==
  IF \A i \in 1..Len(words) : IsFtsTerm(words[i])
  THEN [error |-> FALSE, any |-> FALSE,
        terms |-> [i \in 1..Len(words) |-> FtsTerm(words[i])]]
  ELSE IF /\ Len(words) % 2 = 1
          /\ \A i \in 1..Len(words) :
               IF i % 2 = 1 THEN IsFtsTerm(words[i]) ELSE words[i] = <<"O", "R">>
  THEN [error |-> FALSE, any |-> TRUE,
        terms |-> [i \in 1..((Len(words) + 1) \div 2) |-> FtsTerm(words[2 * i - 1])]]
  ELSE [error |-> TRUE, any |-> FALSE, terms |-> <<>>]

ConceptFtsParse(m) ==
  IF Trim(m) = <<>> THEN [error |-> TRUE, any |-> FALSE, terms |-> <<>>]
  ELSE ConceptFtsWords(SplitSpaces(Trim(m)))

\* whether the term stands at place i of the token sequence toks
TermAt(toks, i, term) ==
  /\ i + Len(term.phrase) - 1 <= Len(toks)
  /\ \A j \in 1..Len(term.phrase) :
       IF j = Len(term.phrase) /\ term.prefix
       THEN StartsWith(toks[i + j - 1], term.phrase[j])
       ELSE toks[i + j - 1] = term.phrase[j]

TermOccurrences(toks, term) ==
  IF term.phrase = <<>> THEN 0
  ELSE Cardinality({i \in 1..Len(toks) : TermAt(toks, i, term)})

\* the frequency of a term in the columns cols of a row of the index
RECURSIVE ColumnsTermFreq(_, _)
ColumnsTermFreq(cols, term) ==
  IF cols = <<>> THEN 0
  ELSE TermOccurrences(Head(cols), term) + ColumnsTermFreq(Tail(cols), term)

RECURSIVE ColumnsLen(_)
ColumnsLen(cols) == IF cols = <<>> THEN 0 ELSE Len(Head(cols)) + ColumnsLen(Tail(cols))

ConceptTermFreq(row, term) == ColumnsTermFreq(row.fts, term)

ConceptDocLen(row) == ColumnsLen(row.fts)

RECURSIVE SumConceptDocLen(_)
SumConceptDocLen(rows) ==
  IF rows = <<>> THEN 0 ELSE ConceptDocLen(Head(rows)) + SumConceptDocLen(Tail(rows))

\* whether the row satisfies MATCH
ConceptMatches(row, parsed) ==
  IF parsed.any
  THEN \E i \in 1..Len(parsed.terms) : ConceptTermFreq(row, parsed.terms[i]) > 0
  ELSE \A i \in 1..Len(parsed.terms) : ConceptTermFreq(row, parsed.terms[i]) > 0

\* bm25's inverse document frequency in millionths, IdfTable[n][hits] for a
\* table of n rows of which hits hold the term: ln((n - hits + 0.5) /
\* (hits + 0.5)), and 0.000001 where that is not positive
IdfTable ==
  << <<1>>,
     <<1, 1>>,
     <<510826, 1, 1>>,
     <<847298, 1, 1, 1>>,
     <<1098612, 336472, 1, 1, 1>>,
     <<1299283, 587787, 1, 1, 1, 1>>,
     <<1466337, 788457, 251314, 1, 1, 1, 1>>,
     <<1609438, 955511, 451985, 1, 1, 1, 1, 1>>,
     <<1734601, 1098612, 619039, 200671, 1, 1, 1, 1, 1>> >>

\* the number of rows that hold the term
TermHits(rows, term) ==
  Cardinality({i \in 1..Len(rows) : ConceptTermFreq(rows[i], term) > 0})

\* the terms of a query with their inverse document frequency
TermIdfs(terms, rows) ==
  [i \in 1..Len(terms) |->
     [term |-> terms[i],
      idf |-> IF TermHits(rows, terms[i]) = 0 THEN 0
              ELSE IdfTable[Len(rows)][TermHits(rows, terms[i])]]]

\* the part of one term in bm25(concept_fts) of a row, negated, in millionths
\* (the factors are cut to four decimals before they are multiplied); total
\* is the number of tokens of the table, n its number of rows
TermBm25(row, stat, total, n) ==
  IF ConceptTermFreq(row, stat.term) = 0 THEN 0
  ELSE ((stat.idf \div 100)
          * (Bm25Of(ConceptTermFreq(row, stat.term), total, n, ConceptDocLen(row))
               \div 100)) \div 100

RECURSIVE ConceptBm25(_, _, _, _)
ConceptBm25(row, stats, total, n) ==
  IF stats = <<>> THEN 0
  ELSE TermBm25(row, Head(stats), total, n) + ConceptBm25(row, Tail(stats), total, n)

\* the concept ids on the allowlist of a project
AllowedIds(db, projectId) ==
  {db.allowlists[i].concept_id :
     i \in {j \in 1..Len(db.allowlists) : db.allowlists[j].project_id = projectId}}

\* a statement that takes its filter from params.allowlist only
ConceptFilterListOnly(params) ==
  IF IsSome(params.allowlist) /\ params.allowlist[1] # <<>> THEN "list" ELSE "none"

\* which filter the statement carries: the project's allowlist when
\* params.projectId is truthy, else params.allowlist when it is not empty
ConceptFilter(params) ==
  IF IsSome(params.projectId) /\ params.projectId[1] # "" THEN "project"
  ELSE IF IsSome(params.allowlist) /\ params.allowlist[1] # <<>> THEN "list"
  ELSE "none"

PassesConceptFilter(db, params, row) ==
  CASE ConceptFilter(params) = "project" ->
         row.id \in AllowedIds(db, params.projectId[1])
    [] ConceptFilter(params) = "list" ->
         \E i \in 1..Len(params.allowlist[1]) : params.allowlist[1][i] = row.id
    [] OTHER -> TRUE

\* results.map(row => ({ concept, score: -row.fts_score })) (the snippet is
\* left out)
ConceptResultsOf(ordered) ==
  [i \in 1..Len(ordered) |-> [concept |-> ordered[i].concept, score |-> ordered[i].score]]

\* SELECT c.*, 1.0 as fts_score FROM concepts c [WHERE c.id IN ...]
\* ORDER BY c.importance DESC, c.created_at DESC LIMIT ?
ConceptWildcardKeyed(hits) ==
  [i \in 1..Len(hits) |->
     [concept |-> rowToConcept(hits[i]), score |-> 0 - ScoreUnit,
      key |-> <<hits[i].importance, hits[i].created_at>>]]

\* the same SELECT for a query that is blank but is not '*': the statement
\* is ordered like a MATCH query, and its filter is appended with AND,
\* which does not parse
ConceptBlankKeyed(hits) ==
  [i \in 1..Len(hits) |->
     [concept |-> rowToConcept(hits[i]), score |-> 0 - ScoreUnit,
      key |-> <<0 - ScoreUnit, hits[i].importance>>]]

\* ... WHERE concept_fts MATCH ? [AND c.id IN ...]
\* ORDER BY fts_score DESC, c.importance DESC LIMIT ?
ConceptMatchScored(hits, stats, total, n) ==
  [i \in 1..Len(hits) |->
     [concept |-> rowToConcept(hits[i]), score |-> ConceptBm25(hits[i], stats, total, n)]]

ConceptMatchKeyed(scored) ==
  [i \in 1..Len(scored) |->
     [concept |-> scored[i].concept, score |-> scored[i].score,
      key |-> <<0 - scored[i].score, scored[i].concept.importance>>]]

ConceptMatchStatement(db, params, parsed) ==
  IF parsed.error THEN [threw |-> TRUE, results |-> <<>>]
  ELSE [threw |-> FALSE,
        results |-> ConceptResultsOf(Limit(SortDesc(ConceptMatchKeyed(ConceptMatchScored(
                      SelectSeq(db.concepts, LAMBDA row :
                        ConceptMatches(row, parsed) /\ PassesConceptFilter(db, params, row)),
                      TermIdfs(parsed.terms, db.concepts),
                      SumConceptDocLen(db.concepts), Len(db.concepts)))),
                    OrDefault(params.k, ConceptDefaultK)))]

ConceptSearchStatement(db, params, searchQuery) ==
  IF searchQuery = Star
  THEN [threw |-> FALSE,
        results |-> ConceptResultsOf(Limit(SortDesc(ConceptWildcardKeyed(
                      SelectSeq(db.concepts, LAMBDA row : PassesConceptFilter(db, params, row)))),
                    OrDefault(params.k, ConceptDefaultK)))]
  ELSE IF Trim(searchQuery) = <<>>
  THEN IF ConceptFilter(params) # "none"
       THEN [threw |-> TRUE, results |-> <<>>]
       ELSE [threw |-> FALSE,
             results |-> ConceptResultsOf(Limit(SortDesc(ConceptBlankKeyed(db.concepts)),
                           OrDefault(params.k, ConceptDefaultK)))]
  ELSE ConceptMatchStatement(db, params, ConceptFtsParse(searchQuery))

\* ConceptStore.search(params) on the store db: [threw, results]
conceptSearch(db, params) ==
  ConceptSearchStatement(db, params, normalizeSearchQuery(params.q))

(***************************************************************************)
(* ConceptStore.save(params) at time t: [db, outcome, id].  outcome is     *)
(* "updated", "inserted" or "threw" (the CHECK constraint of importance    *)
(* failed: the statement changed nothing and the exception escapes).       *)
(***************************************************************************)
\* params.id || this.generateConceptId(params.title)
ConceptIdOf(params, t) ==
  IF IsSome(params.id) /\ params.id[1] # <<>> THEN params.id[1]
  ELSE generateConceptId(params.title, t)

\* the row after the UPDATE statement of save (trigger concept_fts_update
\* rewrites its row of concept_fts)
UpdatedConcept(row, params, t) ==
  [row EXCEPT
     !.title = params.title,
     !.body = params.body,
     !.tags = OrEmpty(params.tags),
     !.importance = OrDefault(params.importance, row.importance),
     !.updated_at = t,
     !.fts = <<Tokenize(params.title), Tokenize(params.body)>>]

ConceptSaveAt(db, params, t, id, hit) ==
  IF hit # {}
  THEN IF CheckImportance(OrDefault(params.importance, db.concepts[Min(hit)].importance))
       THEN [db |-> [db EXCEPT !.concepts[Min(hit)] = UpdatedConcept(@, params, t)],
             outcome |-> "updated", id |-> Some(id)]
       ELSE [db |-> db, outcome |-> "threw", id |-> None]
  ELSE IF CheckImportance(OrDefault(params.importance, DefaultImportance))
       THEN [db |-> [db EXCEPT !.concepts =
                       Append(@, ConceptRow(id, params.title, params.body,
                                            OrEmpty(params.tags),
                                            OrDefault(params.importance, DefaultImportance),
                                            t))],
             outcome |-> "inserted", id |-> Some(id)]
       ELSE [db |-> db, outcome |-> "threw", id |-> None]

conceptSave(db, params, t) ==
  ConceptSaveAt(db, params, t, ConceptIdOf(params, t),
                ConceptsWithId(db, ConceptIdOf(params, t)))

(***************************************************************************)
(* ConceptStore.updateAllowlist(params) at time t: [db, out], out the      *)
(* result object with its optional fields added, removed and allowlist.    *)
(***************************************************************************)
\* whether the allowlist table holds the entry (PRIMARY KEY)
HasEntry(allowlists, projectId, conceptId) ==
  \E i \in 1..Len(allowlists) :
     allowlists[i].project_id = projectId /\ allowlists[i].concept_id = conceptId

\* a round of the loop over params.add that does not look the concept up
AllowAddStepUnverified(acc, db, projectId, conceptId, t) ==
  IF ~HasEntry(acc.allowlists, projectId, conceptId)
  THEN [allowlists |-> Append(acc.allowlists,
                              [project_id |-> projectId, concept_id |-> conceptId,
                               added_at |-> t]),
        ids |-> Append(acc.ids, conceptId)]
  ELSE acc

\* one round of the loop over params.add: INSERT OR IGNORE for an existing
\* concept; added receives the id when a row was inserted
AllowAddStep(acc, db, projectId, conceptId, t) ==
  IF conceptGet(db, conceptId) # None /\ ~HasEntry(acc.allowlists, projectId, conceptId)
  THEN [allowlists |-> Append(acc.allowlists,
                              [project_id |-> projectId, concept_id |-> conceptId,
                               added_at |-> t]),
        ids |-> Append(acc.ids, conceptId)]
  ELSE acc

RECURSIVE AllowAdd(_, _, _, _)
AllowAdd(db, projectId, ids, t) ==
  IF ids = <<>> THEN [allowlists |-> db.allowlists, ids |-> <<>>]
  ELSE AllowAddStep(AllowAdd(db, projectId, SubSeq(ids, 1, Len(ids) - 1), t),
                    db, projectId, ids[Len(ids)], t)

\* one round of the loop over params.remove: DELETE of the entry; removed
\* receives the id when a row was deleted
AllowRemoveStep(acc, projectId, conceptId) ==
  IF HasEntry(acc.allowlists, projectId, conceptId)
  THEN [allowlists |-> SelectSeq(acc.allowlists, LAMBDA e :
                         ~(e.project_id = projectId /\ e.concept_id = conceptId)),
        ids |-> Append(acc.ids, conceptId)]
  ELSE acc

RECURSIVE AllowRemove(_, _, _)
AllowRemove(allowlists, projectId, ids) ==
  IF ids = <<>> THEN [allowlists |-> allowlists, ids |-> <<>>]
  ELSE AllowRemoveStep(AllowRemove(allowlists, projectId, SubSeq(ids, 1, Len(ids) - 1)),
                       projectId, ids[Len(ids)])

\* SELECT concept_id FROM project_allowlists WHERE project_id = ?
\* ORDER BY added_at DESC
AllowKeyed(entries) ==
  [i \in 1..Len(entries) |->
     [concept_id |-> entries[i].concept_id, key |-> <<entries[i].added_at>>]]

AllowConceptIds(ordered) == [i \in 1..Len(ordered) |-> ordered[i].concept_id]

AllowList(allowlists, projectId) ==
  AllowConceptIds(SortDesc(AllowKeyed(
    SelectSeq(allowlists, LAMBDA e : e.project_id = projectId))))

\* the table after the block of params.add
AllowAfterAdd(db, params, t) ==
  IF OrEmpty(params.add) # <<>>
  THEN AllowAdd(db, params.projectId, params.add[1], t).allowlists
  ELSE db.allowlists

\* the table after the block of params.remove
AllowAfterRemove(db, params, t) ==
  IF OrEmpty(params.remove) # <<>>
  THEN AllowRemove(AllowAfterAdd(db, params, t), params.projectId,
                   params.remove[1]).allowlists
  ELSE AllowAfterAdd(db, params, t)

updateAllowlist(db, params, t) ==
  [db |-> [db EXCEPT !.allowlists = AllowAfterRemove(db, params, t)],
   out |->
     [added |-> IF OrEmpty(params.add) # <<>>
                THEN Some(AllowAdd(db, params.projectId, params.add[1], t).ids)
                ELSE None,
      removed |-> IF OrEmpty(params.remove) # <<>>
                  THEN Some(AllowRemove(AllowAfterAdd(db, params, t), params.projectId,
                                        params.remove[1]).ids)
                  ELSE None,
      allowlist |-> IF params.list
                    THEN Some(AllowList(AllowAfterRemove(db, params, t), params.projectId))
                    ELSE None]]

(***************************************************************************)
(* The calls of the ConceptStore instance of project p as actions.         *)
(***************************************************************************)
ConceptSave(p, params) ==
  /\ conceptDb' = [conceptDb EXCEPT ![p] = conceptSave(@, params, now).db]
  /\ ret' = [op |-> "conceptSave", project |-> p, params |-> params,
             outcome |-> conceptSave(conceptDb[p], params, now).outcome,
             id |-> conceptSave(conceptDb[p], params, now).id]
  /\ UNCHANGED <<memories, now, enhancedDb, broker, server>>

UpdateAllowlist(p, params) ==
  /\ conceptDb' = [conceptDb EXCEPT ![p] = updateAllowlist(@, params, now).db]
  /\ ret' = [op |-> "updateAllowlist", project |-> p, params |-> params,
             out |-> updateAllowlist(conceptDb[p], params, now).out]
  /\ UNCHANGED <<memories, now, enhancedDb, broker, server>>

ConceptSearch(p, params) ==
  /\ ret' = [op |-> "conceptSearch", project |-> p, params |-> params,
             out |-> conceptSearch(conceptDb[p], params)]
  /\ UNCHANGED <<memories, now, cvars, broker, server>>

ConceptGet(p, id) ==
  /\ ret' = [op |-> "conceptGet", project |-> p, id |-> id,
             out |-> conceptGet(conceptDb[p], id)]
  /\ UNCHANGED <<memories, now, cvars, broker, server>>

(***************************************************************************)
(* The handler of tool concept_search of the server whose current project  *)
(* is p.  args is [q, k, allowlist].  The response is [threw] when a       *)
(* search raised, else [query, count, concepts, note]; a note is the       *)
(* template of its text with the values it inserts.                        *)
(***************************************************************************)
\* (args?.q as string) || '*'
ToolQuery(args) == IF IsSome(args.q) /\ args.q[1] # <<>> THEN args.q[1] ELSE Star

\* conceptSearchQuery.trim() || '*'
TrimOrStar(q) == IF Trim(q) = <<>> THEN Star ELSE Trim(q)

ToolParams(args, q) ==
  [q |-> q, k |-> Some(OrDefault(args.k, ConceptDefaultK)), allowlist |-> args.allowlist,
   projectId |-> None]

\* c.concept.body.substring(0, 200) + '...'
BodyPreview(body) == Limit(body, 200) \o <<".", ".", ".">>

ToolConcepts(results) ==
  [i \in 1..Len(results) |->
     [id |-> results[i].concept.id, title |-> results[i].concept.title,
      body |-> BodyPreview(results[i].concept.body), tags |-> results[i].concept.tags,
      importance |-> results[i].concept.importance, score |-> results[i].score]]

ToolNote(results, query) ==
  [text |-> IF Len(results) = 0
            THEN "No concepts found. Concepts need to be created first with concept_save."
            ELSE IF query = Star THEN "Showing all available global concepts"
            ELSE "Found ${count} concepts matching \"${query}\"",
   count |-> Len(results), query |-> query]

ToolResponse(final, query) ==
  IF final.threw THEN [threw |-> TRUE]
  ELSE [threw |-> FALSE, query |-> query, count |-> Len(final.results),
        concepts |-> ToolConcepts(final.results),
        note |-> ToolNote(final.results, query)]

\* the fallback: a query other than '*' without results is run again as '*'
ToolFinal(db, args, query, first) ==
  IF ~first.threw /\ Len(first.results) = 0 /\ query # Star
  THEN conceptSearch(db, ToolParams(args, Star))
  ELSE first

conceptSearchTool(db, args) ==
  ToolResponse(ToolFinal(db, args, ToolQuery(args),
                         conceptSearch(db, ToolParams(args, TrimOrStar(ToolQuery(args))))),
               ToolQuery(args))

ConceptSearchTool(p, args) ==
  /\ ret' = [op |-> "concept_search", project |-> p, args |-> args,
             out |-> conceptSearchTool(conceptDb[p], args)]
  /\ UNCHANGED <<memories, now, cvars, broker, server>>

(***************************************************************************)
(* ConceptStoreEnhanced: the tables concepts (with usage_count and         *)
(* last_used), concept_relationships and project_allowlists of one         *)
(* database file, and the index concept_fts over title, body and tags.  A  *)
(* store is [concepts, relationships, allowlists].                         *)
(***************************************************************************)
\* 7 * 24 * 60 * 60 * 1000: the window of the bonus for recent use
WeekMs == 604800000

\* the digits of crypto.randomBytes(3).toString('hex')
HexDigits == Digits \o <<"a", "b", "c", "d", "e", "f">>

\* the last width hexadecimal digits of n
RECURSIVE Hex(_, _)
Hex(n, width) ==
  IF width = 0 THEN <<>> ELSE Hex(n \div 16, width - 1) \o <<HexDigits[(n % 16) + 1]>>

\* ConceptStoreEnhanced.generateConceptId(title); r is the random number
enhancedConceptId(title, r) ==
  Limit(StripDashes(Slug(ToLowerCase(title))), 50) \o <<"-">> \o Hex(r, 6)

NewEnhancedStore == [concepts |-> <<>>, relationships |-> <<>>, allowlists |-> <<>>]

\* the row save writes
EnhancedRow(id, params, t) ==
  [id |-> id, title |-> params.title, body |-> params.body,
   tags |-> OrEmpty(params.tags),
   importance |-> OrDefault(params.importance, DefaultImportance),
   usage_count |-> 0, last_used |-> None, created_at |-> t, updated_at |-> t,
   source |-> OrUndefined(params.source, "manual"),
   fts |-> <<Tokenize(params.title), Tokenize(params.body),
             Tokenize(TagsColumn(OrEmpty(params.tags)))>>]

\* ConceptStoreEnhanced.rowToConcept(row)
enhancedRowToConcept(row) ==
  [id |-> row.id, title |-> row.title, body |-> row.body, tags |-> row.tags,
   importance |-> row.importance, usage_count |-> row.usage_count,
   last_used |-> row.last_used, created_at |-> row.created_at,
   updated_at |-> row.updated_at]

\* concept.tags.filter(t => otherTags.includes(t)).length
TagOverlap(tags, otherTags) ==
  Len(SelectSeq(tags, LAMBDA tag : \E i \in 1..Len(otherTags) : otherTags[i] = tag))

\* autoDiscoverRelated: whether the saved concept is related to another row
IsRelated(tags, other) ==
  /\ TagOverlap(tags, other.tags) > 0
  /\ 10 * TagOverlap(tags, other.tags) > 3 * Max({Len(tags), Len(other.tags)})

\* INSERT OR REPLACE INTO concept_relationships: strength 0.5 in millionths
RECURSIVE AddRelated(_, _, _, _)
AddRelated(relationships, id, tags, others) ==
  IF others = <<>> THEN relationships
  ELSE IF IsRelated(tags, Head(others))
  THEN AddRelated(Append(SelectSeq(relationships, LAMBDA rel :
                           ~(rel.concept_id = id /\ rel.related_id = Head(others).id)),
                         [concept_id |-> id, related_id |-> Head(others).id,
                          relationship_type |-> "related", strength |-> ScoreUnit \div 2]),
                  id, tags, Tail(others))
  ELSE AddRelated(relationships, id, tags, Tail(others))

\* SELECT id, title, tags FROM concepts WHERE id != ? LIMIT 20
OtherConcepts(rows, id) == Limit(SelectSeq(rows, LAMBDA row : row.id # id), 20)

\* ConceptStoreEnhanced.save(params) at time t with random number r:
\* INSERT OR REPLACE of the row, then autoDiscoverRelated; [db, threw]
EnhancedSaveAt(db, params, t, id) ==
  IF ~CheckImportance(OrDefault(params.importance, DefaultImportance))
  THEN [db |-> db, threw |-> TRUE]
  ELSE [db |-> [db EXCEPT
                  !.concepts = Append(SelectSeq(@, LAMBDA row : row.id # id),
                                      EnhancedRow(id, params, t)),
                  !.relationships = AddRelated(@, id, OrEmpty(params.tags),
                                               OtherConcepts(db.concepts, id))],
        threw |-> FALSE]

enhancedSave(db, params, t, r) ==
  EnhancedSaveAt(db, params, t, enhancedConceptId(params.title, r))

\* importance * 2.0 + COALESCE(usage_count * 0.1, 0)
\*   + CASE WHEN last_used > ? THEN 2.0 ELSE 0 END, in millionths
UsageScore(row, t) ==
  2 * row.importance * ScoreUnit + (row.usage_count * ScoreUnit) \div 10
    + (IF IsSome(row.last_used) /\ row.last_used[1] > t - WeekMs THEN 2 * ScoreUnit ELSE 0)

\* the accepted entries of a project's allowlist
AcceptedIds(db, projectId) ==
  {db.allowlists[i].concept_id :
     i \in {j \in 1..Len(db.allowlists) :
              db.allowlists[j].project_id = projectId /\ db.allowlists[j].accepted}}

PassesEnhancedFilter(db, params, row) ==
  (IsSome(params.projectId) /\ params.projectId[1] # "")
    => row.id \in AcceptedIds(db, params.projectId[1])

\* row.smart_score || 1.0
SmartOrOne(score) == IF score = 0 THEN ScoreUnit ELSE score

EnhancedKeyed(scored) ==
  [i \in 1..Len(scored) |->
     [concept |-> scored[i].concept, score |-> SmartOrOne(scored[i].score),
      key |-> <<scored[i].score>>]]

EnhancedWildcardScored(hits, t) ==
  [i \in 1..Len(hits) |->
     [concept |-> enhancedRowToConcept(hits[i]), score |-> UsageScore(hits[i], t)]]

\* -bm25(concept_fts) * 3.0 + the score of importance and usage
EnhancedMatchScored(hits, stats, total, n, t) ==
  [i \in 1..Len(hits) |->
     [concept |-> enhancedRowToConcept(hits[i]),
      score |-> 3 * ConceptBm25(hits[i], stats, total, n) + UsageScore(hits[i], t)]]

EnhancedMatchStatement(db, params, parsed, t) ==
  IF parsed.error THEN [threw |-> TRUE, results |-> <<>>]
  ELSE [threw |-> FALSE,
        results |-> ConceptResultsOf(Limit(SortDesc(EnhancedKeyed(EnhancedMatchScored(
                      SelectSeq(db.concepts, LAMBDA row :
                        ConceptMatches(row, parsed) /\ PassesEnhancedFilter(db, params, row)),
                      TermIdfs(parsed.terms, db.concepts),
                      SumConceptDocLen(db.concepts), Len(db.concepts), t))),
                    OrDefault(params.k, ConceptDefaultK)))]

\* the statement of ConceptStoreEnhanced.search for searchQuery = params.q
\* || '*': ORDER BY smart_score DESC LIMIT ?
EnhancedSearchStatement(db, params, searchQuery, t) ==
  IF searchQuery = Star
  THEN [threw |-> FALSE,
        results |-> ConceptResultsOf(Limit(SortDesc(EnhancedKeyed(EnhancedWildcardScored(
                      SelectSeq(db.concepts, LAMBDA row : PassesEnhancedFilter(db, params, row)),
                      t))),
                    OrDefault(params.k, ConceptDefaultK)))]
  ELSE EnhancedMatchStatement(db, params, ConceptFtsParse(searchQuery), t)

\* finalResults of ConceptStoreEnhanced.search(params) at time t before
\* `if (params.includeRelated && ...)`: what a search without includeRelated
\* returns
enhancedSearch(db, params, t) ==
  EnhancedSearchStatement(db, params, IF params.q = <<>> THEN Star ELSE params.q, t)

\* params.includeRelated
IncludesRelated(params) == "includeRelated" \in DOMAIN params /\ params.includeRelated

\* results.slice(0, 3)
RelatedSources == 3

\* LIMIT 2
RelatedLimit == 2

\* FROM concepts c JOIN concept_relationships r ON c.id = r.related_id
\* WHERE r.concept_id = ?
OutgoingEdges(db, id) ==
  SelectSeq(db.relationships, LAMBDA rel :
    rel.concept_id = id /\ \E i \in 1..Len(db.concepts) : db.concepts[i].id = rel.related_id)

\* a statement without LIMIT: every edge, in the order of the table
EveryEdge(edges) == {[i \in 1..Len(edges) |-> i]}

\* ORDER BY r.strength DESC LIMIT 2: the rows the statement may return, as
\* indexes into the edges; SQL leaves the order of edges of equal strength
\* open, so every order of them is an outcome
RelatedOrders(edges) ==
  {pick \in [1..(IF Len(edges) < RelatedLimit THEN Len(edges) ELSE RelatedLimit)
               -> 1..Len(edges)] :
     /\ \A i, j \in DOMAIN pick :
          i < j => /\ pick[i] # pick[j]
                   /\ edges[pick[i]].strength >= edges[pick[j]].strength
     /\ \A k \in 1..Len(edges) : \A i \in DOMAIN pick :
          pick[i] # k => edges[pick[i]].strength >= edges[k].strength}

\* a * b for numbers in millionths, rounded down (the factors are split so
\* that no product exceeds 32 bits)
MulMillionths(a, b) ==
  (a \div 1000) * (b \div 1000)
    + ((a \div 1000) * (b % 1000) + (a % 1000) * (b \div 1000)
         + ((a % 1000) * (b % 1000)) \div 1000) \div 1000

\* result.score * rel.strength * 0.5
RelatedScore(score, strength) == MulMillionths(score, strength) \div 2

\* seen: the ids of results and of every concept pushed so far
SeenIds(enriched) == {enriched[i].concept.id : i \in 1..Len(enriched)}

\* for (const rel of related): the rows of one source from the j-th on
RECURSIVE PushRelated(_, _, _, _, _, _)
PushRelated(db, result, edges, pick, j, enriched) ==
  IF j > Len(pick) THEN enriched
  ELSE IF edges[pick[j]].related_id \in SeenIds(enriched)
  THEN PushRelated(db, result, edges, pick, j + 1, enriched)
  ELSE PushRelated(db, result, edges, pick, j + 1,
         Append(enriched,
           [concept |-> enhancedRowToConcept(
                          SelectSeq(db.concepts, LAMBDA row :
                            row.id = edges[pick[j]].related_id)[1]),
            score |-> RelatedScore(result.score, edges[pick[j]].strength)]))

\* for (const result of results.slice(0, 3)): the sources from the i-th on;
\* picks[i] is what the statement returns for the i-th source
RECURSIVE EnrichFrom(_, _, _, _, _)
EnrichFrom(db, results, picks, i, enriched) ==
  IF i > Len(picks) THEN enriched
  ELSE EnrichFrom(db, results, picks, i + 1,
         PushRelated(db, results[i], OutgoingEdges(db, results[i].concept.id),
                     picks[i], 1, enriched))

\* enriched.sort((a, b) => b.score - a.score): a stable sort
SortEnriched(enriched) ==
  ConceptResultsOf(SortDesc([i \in 1..Len(enriched) |->
    [concept |-> enriched[i].concept, score |-> enriched[i].score,
     key |-> <<enriched[i].score>>]]))

\* ConceptStoreEnhanced.enrichWithRelated(results) when the statements of the
\* loop return picks
enrichWithRelated(db, results, picks) ==
  SortEnriched(EnrichFrom(db, results, picks, 1, results))

\* what the statements of enrichWithRelated(results) may return: one choice
\* for each of the first three results
PicksOf(db, results) ==
  {picks \in [1..(IF Len(results) < RelatedSources THEN Len(results) ELSE RelatedSources)
                -> UNION {RelatedOrders(OutgoingEdges(db, results[i].concept.id)) :
                            i \in 1..Len(results)}] :
     \A i \in DOMAIN picks :
       picks[i] \in RelatedOrders(OutgoingEdges(db, results[i].concept.id))}

\* the choices open to search(params): none unless
\* `params.includeRelated && finalResults.length > 0`
RelatedPicks(found, db, params) ==
  IF IncludesRelated(params) /\ ~found.threw /\ Len(found.results) > 0
  THEN PicksOf(db, found.results)
  ELSE {<<>>}

\* what ConceptStoreEnhanced.search(params) returns at time t when the
\* statements of enrichWithRelated return picks
EnrichedSearch(found, db, params, picks) ==
  IF IncludesRelated(params) /\ ~found.threw /\ Len(found.results) > 0
  THEN [threw |-> FALSE, results |-> enrichWithRelated(db, found.results, picks)]
  ELSE found

enhancedSearchRelated(db, params, t, picks) ==
  EnrichedSearch(enhancedSearch(db, params, t), db, params, picks)

\* trackUsage(conceptId) at time t
trackUsage(rows, conceptId, t) ==
  [i \in 1..Len(rows) |->
     IF rows[i].id = conceptId
     THEN [rows[i] EXCEPT !.usage_count = @ + 1, !.last_used = Some(t)]
     ELSE rows[i]]

\* a search that tracked the use of every concept it returns
RECURSIVE TrackAll(_, _, _)
TrackAll(rows, results, t) ==
  IF results = <<>> THEN rows
  ELSE TrackAll(trackUsage(rows, Head(results).concept.id, t), Tail(results), t)

TrackEveryResult(db, out, t) ==
  IF out.threw THEN db ELSE [db EXCEPT !.concepts = TrackAll(@, out.results, t)]

\* the store after search: the first result's use is tracked
EnhancedAfterSearch(db, out, t) ==
  IF ~out.threw /\ Len(out.results) > 0
  THEN [db EXCEPT !.concepts = trackUsage(@, out.results[1].concept.id, t)]
  ELSE db

\* usage_count of the model's rows stays below MaxUsage
MaxUsage == 2

\* the random numbers of the model's saves do not repeat an id of the store
EnhancedSave(p, params, r) ==
  /\ \A i \in 1..Len(enhancedDb[p].concepts) :
       enhancedDb[p].concepts[i].id # enhancedConceptId(params.title, r)
  /\ enhancedDb' = [enhancedDb EXCEPT ![p] = enhancedSave(@, params, now, r).db]
  /\ ret' = [op |-> "enhancedSave", project |-> p, params |-> params,
             threw |-> enhancedSave(enhancedDb[p], params, now, r).threw]
  /\ UNCHANGED <<memories, now, conceptDb, broker, server>>

EnhancedSearch(p, params) ==
  /\ \A i \in 1..Len(enhancedDb[p].concepts) : enhancedDb[p].concepts[i].usage_count < MaxUsage
  /\ \E picks \in RelatedPicks(enhancedSearch(enhancedDb[p], params, now), enhancedDb[p], params) :
       /\ enhancedDb' = [enhancedDb EXCEPT ![p] =
            EnhancedAfterSearch(@, enhancedSearchRelated(@, params, now, picks), now)]
       /\ ret' = [op |-> "enhancedSearch", project |-> p, params |-> params, at |-> now,
                  out |-> enhancedSearchRelated(enhancedDb[p], params, now, picks)]
  /\ UNCHANGED <<memories, now, conceptDb, broker, server>>

(***************************************************************************)
(* ContextBroker.preview(params) at time t, for the broker of project p.   *)
(* concepts is what conceptStore.search returns for the query.             *)
(* previewCandidates is preview up to the sorted list of candidates.       *)
(***************************************************************************)
\* the parameters of the broker's memory search
BrokerQuery(q) ==
  [q |-> q, k |-> Some(PreviewK), require_path_match |-> FALSE,
   tags |-> None, include_expired |-> FALSE]

\* the memory results: a prefix query that found nothing is tried again
\* without its star
MemoryRetry(p, searchQuery, first, t) ==
  IF Len(first) = 0 /\ EndsWithStar(searchQuery)
  THEN search(p, BrokerQuery(SubSeq(searchQuery, 1, Len(searchQuery) - 1)), t).results
  ELSE first

MemoryResults(p, searchQuery, t) ==
  MemoryRetry(p, searchQuery, search(p, BrokerQuery(searchQuery), t).results, t)

\* the concepts of modes smart and soft: those that score above 0.5
ConceptResults(mode, concepts) ==
  IF mode = "smart" \/ mode = "soft"
  THEN SelectSeq(concepts, LAMBDA c : 2 * c.score > ScoreUnit)
  ELSE <<>>

\* candidates under their sort key
KeyedByScore(candidates) ==
  [i \in 1..Len(candidates) |->
     [injection |-> candidates[i], key |-> <<candidates[i].score>>]]

InjectionsOf(sorted) == [i \in 1..Len(sorted) |-> sorted[i].injection]

\* candidates.sort((a, b) => b.score - a.score)
SortByScore(candidates) == InjectionsOf(SortDesc(KeyedByScore(candidates)))

CandidatesFrom(pathPrefixes, memoryResults, conceptResults, task, p, t) ==
  [pathPrefixes |-> pathPrefixes,
   memoryResults |-> memoryResults,
   conceptResults |-> conceptResults,
   scoredCandidates |->
     SortByScore(scoreMemories(memoryResults, pathPrefixes, task, p, t)
                   \o scoreConcepts(conceptResults, task))]

previewCandidates(p, params, concepts, t) ==
  CandidatesFrom(inferPathPrefixes(OrUndefined(params.open_files, <<>>)),
                 MemoryResults(p, extractSearchTerms(params.task), t),
                 ConceptResults(OrUndefined(params.mode, "smart"), concepts),
                 params.task, p, t)

\* the stats of a preview
PreviewStats(c, p) ==
  [projectMatches |->
     Len(SelectSeq(c.memoryResults, LAMBDA r : r.memory.project_id = p)),
   pathMatches |->
     Len(SelectSeq(c.memoryResults,
                   LAMBDA r : hasPathMatch(r.memory.paths, c.pathPrefixes))),
   conceptMatches |-> Len(c.conceptResults),
   totalCandidates |-> Len(c.scoredCandidates)]

PreviewResult(c, selected, budget_bytes, top_k, p) ==
  [injections |-> selected,
   budgetUsed |-> SumByteSize(selected),
   budgetLimit |-> budget_bytes,
   topK |-> top_k,
   stats |-> PreviewStats(c, p)]

PreviewFrom(c, budget_bytes, top_k, p) ==
  PreviewResult(c, selectByBudget(c.scoredCandidates, budget_bytes, top_k),
                budget_bytes, top_k, p)

preview(p, params, concepts, t) ==
  PreviewFrom(previewCandidates(p, params, concepts, t),
              OrUndefined(params.budget_bytes, DefaultBudgetBytes),
              OrUndefined(params.top_k, DefaultTopK), p)

Preview(p, params, concepts) ==
  /\ ret' = [op |-> "preview", project |-> p, params |-> params, concepts |-> concepts,
             at |-> now, out |-> preview(p, params, concepts, now)]
  /\ UNCHANGED <<memories, now, cvars, broker, server>>


\* k of the broker's concept search
BrokerConceptK == 20

\* getProjectAllowlist(): updateAllowlist({ projectId, list: true }).allowlist
getProjectAllowlist(db, p, t) ==
  updateAllowlist(db, [projectId |-> p, add |-> None, remove |-> None, list |-> TRUE],
                  t).out.allowlist[1]

\* the parameters of the broker's concept search
BrokerConceptParams(db, p, mode, searchQuery, t) ==
  [q |-> searchQuery, k |-> Some(BrokerConceptK),
   allowlist |-> IF mode = "smart" THEN Some(getProjectAllowlist(db, p, t)) ELSE None,
   projectId |-> IF mode = "smart" THEN Some(p) ELSE None]

\* a broker that searches the concepts in every mode, as mode soft does
BrokerConceptsAnyMode(db, p, params, t) ==
  conceptSearch(db, BrokerConceptParams(db, p, "soft", extractSearchTerms(params.task), t))

\* what the broker's concept search returns: [threw, results]
BrokerConcepts(db, p, params, t) ==
  IF OrUndefined(params.mode, "smart") \in {"smart", "soft"}
  THEN conceptSearch(db, BrokerConceptParams(db, p, OrUndefined(params.mode, "smart"),
                                             extractSearchTerms(params.task), t))
  ELSE [threw |-> FALSE, results |-> <<>>]

\* preview of the broker of project p on the ConceptStore instance of p; an
\* exception of the concept search escapes preview
PreviewOnStore(p, params) ==
  IF BrokerConcepts(conceptDb[p], p, params, now).threw
  THEN /\ ret' = [op |-> "preview", project |-> p, params |-> params, threw |-> TRUE]
       /\ UNCHANGED <<memories, now, cvars, broker, server>>
  ELSE Preview(p, params, BrokerConcepts(conceptDb[p], p, params, now).results)


(***************************************************************************)
(* The ranking configuration of a ContextBroker.  contextRules is an       *)
(* object of the broker; getRules hands a new object to the caller.        *)
(* broker[p] is [objects, held]: the objects by reference, and the         *)
(* reference the caller of getRules holds.                                 *)
(***************************************************************************)
\* a number of milliseconds: millions * 1000000 + units
Ms(millions, units) == [millions |-> millions, units |-> units]

\* whether age, below a million, exceeds a number of milliseconds
Exceeds(age, ms) == ms.millions = 0 /\ age > ms.units

\* the initial value of contextRules: 30 days, 2, 2.0, 3 and 0.8
DefaultRules ==
  [maxMemoryAge |-> Ms(2592, 0), minImportance |-> 2,
   pathBoostMultiplier |-> 2 * ScoreUnit, conceptImportanceThreshold |-> 3,
   dedupeThreshold |-> (8 * ScoreUnit) \div 10]

RulesRef == "contextRules"

CopyRef == "copy"

NewBroker == [objects |-> [ref \in {RulesRef} |-> DefaultRules], held |-> None]

\* { ...this.contextRules }: a new object with the fields of contextRules
SpreadRules(b) ==
  [objects |-> [ref \in DOMAIN b.objects \cup {CopyRef} |->
                  IF ref = CopyRef THEN b.objects[RulesRef] ELSE b.objects[ref]],
   ref |-> CopyRef]

\* return this.contextRules: the object itself
ReturnRules(b) == [objects |-> b.objects, ref |-> RulesRef]

\* getRules(): the objects after the call and the reference returned
getRules(b) == SpreadRules(b)

\* Object.assign(target, source)
ObjectAssign(target, source) ==
  [f \in DOMAIN target \cup DOMAIN source |->
     IF f \in DOMAIN source THEN source[f] ELSE target[f]]

\* setRules(rules)
setRules(b, rules) ==
  [b EXCEPT !.objects[RulesRef] = ObjectAssign(@, rules)]

GetRules(p) ==
  /\ broker' = [broker EXCEPT ![p] = [objects |-> getRules(@).objects,
                                      held |-> Some(getRules(@).ref)]]
  /\ ret' = [op |-> "getRules", project |-> p,
             out |-> getRules(broker[p]).objects[getRules(broker[p]).ref]]
  /\ UNCHANGED <<memories, now, cvars, server>>

SetRules(p, rules) ==
  /\ broker' = [broker EXCEPT ![p] = setRules(@, rules)]
  /\ ret' = [op |-> "setRules", project |-> p, rules |-> rules]
  /\ UNCHANGED <<memories, now, cvars, server>>

\* the caller of getRules assigns v to field f of the object it was handed
WriteReturned(p, f, v) ==
  /\ IsSome(broker[p].held)
  /\ broker' = [broker EXCEPT ![p].objects[broker[p].held[1]][f] = v]
  /\ ret' = [op |-> "writeReturned", project |-> p, field |-> f, value |-> v]
  /\ UNCHANGED <<memories, now, cvars, server>>

(***************************************************************************)
(* Time passes.                                                            *)
(***************************************************************************)
\* the clock advances by ms milliseconds
Elapse(ms) ==
  /\ now + ms <= MaxNow
  /\ now' = now + ms
  /\ ret' = [op |-> "tick"]
  /\ UNCHANGED <<memories, cvars, broker, server>>

Tick == Elapse(TickMs)

(***************************************************************************)
(* The server (class KratosServer).  server.handles lists every            *)
(* MemoryDatabase the process has constructed, in order: the project id    *)
(* whose database file it opened and whether the connection is open.  The  *)
(* constructor starts the sweep timer of the handle with setInterval and   *)
(* keeps no reference to it, so each entry of handles has a running timer  *)
(* while the process runs.  memoryDb and contextBroker hold the position   *)
(* of the server's handle and of the handle the broker constructed,        *)
(* conceptStore the project id of the ConceptStore instance, instances     *)
(* the keys of ConceptStore.instances, currentProject the project of the   *)
(* ProjectManager.  A project root stands for its project id               *)
(* (generateProjectId is a hash of the path).                              *)
(***************************************************************************)
\* the project that process.cwd() lies in
CwdProject == "pA"

\* the id in .kratos/project.json that the migration tool opens its
\* database under: proj_<time>_<hex>, none of the ProjectManager's ids
MigrationProject == "proj"

\* new MemoryDatabase(root, id): a connection and a sweep timer
NewMemoryDatabase(p) == [project |-> p, open |-> TRUE]

\* ProjectManager.detectProject(dir) and switchProject(path): the project
\* becomes the current one
detectProject(s, dir) == [s EXCEPT !.currentProject = Some(dir)]

switchProject(s, p) == [s EXCEPT !.currentProject = Some(p)]

\* memoryDb = new MemoryDatabase; conceptStore = ConceptStore.getInstance;
\* contextBroker = new ContextBroker, whose constructor opens a
\* MemoryDatabase of its own
Components(s, p) ==
  [s EXCEPT !.handles = @ \o <<NewMemoryDatabase(p), NewMemoryDatabase(p)>>,
            !.memoryDb = Some(Len(s.handles) + 1),
            !.contextBroker = Some(Len(s.handles) + 2),
            !.conceptStore = Some(p),
            !.instances = @ \cup {p}]

\* components that share the handle of the server with the broker
ComponentsSharingHandle(s, p) ==
  [s EXCEPT !.handles = @ \o <<NewMemoryDatabase(p)>>,
            !.memoryDb = Some(Len(s.handles) + 1),
            !.contextBroker = Some(Len(s.handles) + 1),
            !.conceptStore = Some(p),
            !.instances = @ \cup {p}]

\* initializeProject(): nothing when memoryDb is set, else the project of
\* KRATOS_PROJECT_ROOT || process.cwd() is detected and its components built
initializeProject(s) ==
  IF IsSome(s.memoryDb) THEN s
  ELSE Components(detectProject(s, s.workingDir), s.workingDir)

\* the start of the handler of a memory_, context_ or prd_ tool
EnsureProject(s) == IF IsSome(s.currentProject) THEN s ELSE initializeProject(s)

\* the project whose database file the server's handle has open
ServedProject(s) == s.handles[s.memoryDb[1]].project

\* the open handles of project p
OpenHandles(s, p) ==
  {i \in 1..Len(s.handles) : s.handles[i].project = p /\ s.handles[i].open}

\* currentProj?.id || 'global'
AllowlistProject(s) ==
  IF IsSome(s.currentProject) THEN s.currentProject[1] ELSE "global"

\* the handles the process may construct
MaxHandles == 5

\* tool memory_search with scope 'project': the project is initialized when
\* none is current, detectProject(process.cwd()) names the scope, and the
\* server's handle searches
MemorySearchTool(args) ==
  /\ server.running
  /\ server' = detectProject(EnsureProject(server), CwdProject)
  /\ ret' = [op |-> "memory_search", args |-> args, scope |-> CwdProject,
             served |-> ServedProject(server'),
             results |-> IF args.debug
                         THEN searchWithDebug(ServedProject(server'), args.params, now).results
                         ELSE search(ServedProject(server'), args.params, now).results]
  /\ UNCHANGED <<memories, now, cvars, broker>>

\* tool project_switch
ProjectSwitchTool(p) ==
  /\ server.running
  /\ Len(server.handles) + 2 <= MaxHandles
  /\ server' = Components(switchProject(server, p), p)
  /\ ret' = [op |-> "project_switch", project |-> p]
  /\ UNCHANGED <<memories, now, cvars, broker>>

\* tool concept_allowlist: the entries are written to the server's concept
\* store under the id of the ProjectManager's current project
ConceptAllowlistTool(args) ==
  /\ server.running
  /\ IF IsSome(server.conceptStore)
     THEN /\ conceptDb' =
               [conceptDb EXCEPT ![server.conceptStore[1]] =
                  updateAllowlist(@, [args EXCEPT !.projectId = AllowlistProject(server)],
                                  now).db]
          /\ ret' = [op |-> "concept_allowlist", threw |-> FALSE,
                     store |-> server.conceptStore,
                     projectId |-> AllowlistProject(server)]
     ELSE /\ conceptDb' = conceptDb
          /\ ret' = [op |-> "concept_allowlist", threw |-> TRUE,
                     store |-> None, projectId |-> "global"]
  /\ UNCHANGED <<memories, now, enhancedDb, broker, server>>

\* tool system_migrate when legacy memories are found: migrateProject opens
\* a MemoryDatabase under the id of .kratos/project.json, saves into it and
\* closes it; that database file is no project's store
SystemMigrateTool ==
  /\ server.running
  /\ Len(server.handles) + 1 <= MaxHandles
  /\ server' = [server EXCEPT !.handles =
                  Append(@, [NewMemoryDatabase(MigrationProject) EXCEPT !.open = FALSE])]
  /\ ret' = [op |-> "system_migrate"]
  /\ UNCHANGED <<memories, now, cvars, broker>>

\* a tick of the timer of handle i: cleanupExpired prepares its DELETE on the
\* connection, which raises when the connection is closed
SweepTick(i) ==
  /\ server.running
  /\ ret' = [op |-> "sweep_tick", handle |-> i, project |-> server.handles[i].project,
             closed |-> ~server.handles[i].open,
             changes |-> IF server.handles[i].open /\ server.handles[i].project \in Projects
                         THEN Cardinality(ExpiredRows(server.handles[i].project))
                         ELSE 0]
  /\ memories' = IF server.handles[i].open /\ server.handles[i].project \in Projects
                 THEN [memories EXCEPT ![server.handles[i].project] =
                         RemoveAt(@, ExpiredRows(server.handles[i].project))]
                 ELSE memories
  /\ UNCHANGED <<now, cvars, broker, server>>

\* a tick that finds the timer of a closed handle cleared
SweepTickCleared(i) ==
  /\ server.running
  /\ server.handles[i].open
  /\ SweepTick(i)

\* SIGINT: the handles of the server and of its broker are closed and the
\* process exits
Shutdown ==
  /\ server.running
  /\ server' = [server EXCEPT
                  !.running = FALSE,
                  !.handles = [i \in 1..Len(@) |->
                                 IF Some(i) \in {server.memoryDb, server.contextBroker}
                                 THEN [@[i] EXCEPT !.open = FALSE] ELSE @[i]]]
  /\ ret' = [op |-> "exit"]
  /\ UNCHANGED <<memories, now, cvars, broker>>

(***************************************************************************)
(* The store under save, forget, the expiry sweep and get.                 *)
(***************************************************************************)
\* the project whose handle the calls of this specification use
Handle == "pA"

\* two calls that differ in the case and the surrounding space of the summary
\* and in the order of the paths only
PlainParams ==
  { [summary |-> sp[1], text |-> <<"x">>, tags |-> None, paths |-> Some(sp[2]),
     importance |-> None, ttl |-> None] :
      sp \in { << <<"A", "b">>, << <<"b">>, <<"a">> >> >>,
               << <<"a", "b", " ">>, << <<"a">>, <<"b">> >> >> } }

\* text, tags, importance and ttl of the calls that save summary "b" without
\* paths: all of them omitted; all given; an importance of 0
Details ==
  { [text |-> <<"x">>, tags |-> None, importance |-> None, ttl |-> None],
    [text |-> <<"y">>, tags |-> Some(<< <<"a">> >>), importance |-> Some(5), ttl |-> Some(1)],
    [text |-> <<"x">>, tags |-> Some(<<>>), importance |-> Some(0), ttl |-> None] }

SaveParams ==
  PlainParams
  \cup
  { [summary |-> <<"b">>, text |-> d.text, tags |-> d.tags, paths |-> None,
     importance |-> d.importance, ttl |-> d.ttl] : d \in Details }

\* the ids a caller may name: every id generateId can produce
Ids == {generateId(t, r) : t \in {n * TickMs : n \in 0..(MaxNow \div TickMs)},
                           r \in 0..MaxRand}

Init ==
  /\ memories = [p \in Projects |-> <<>>]
  /\ now = 0
  /\ ret = [op |-> "init"]
  /\ conceptDb = NoStores
  /\ enhancedDb = NoStores
  /\ broker = [p \in Projects |-> NewBroker]
  /\ server = NewServer

Next ==
  \/ \E params \in SaveParams, r \in 0..MaxRand : Save(Handle, params, r)
  \/ \E id \in Ids : Forget(Handle, id)
  \/ CleanupExpired(Handle)
  \/ Tick

Spec == Init /\ [][Next]_vars

(***************************************************************************)
(* The store under saves that give importance as any number: omitted, 0,   *)
(* integers inside and above the range, and numbers that are not integers. *)
(***************************************************************************)
\* the numbers 0.5, 2.5 and 5.5
HalfSaves ==
  { [summary |-> summary, text |-> <<"x">>, tags |-> None, paths |-> None,
     importance |-> Some(n), importance_half |-> TRUE, ttl |-> None] :
      summary \in {<<"a">>, <<"b">>}, n \in {0, 2, 5} }

ImportanceSaves ==
  { [summary |-> summary, text |-> <<"x">>, tags |-> None, paths |-> None,
     importance |-> importance, ttl |-> None] :
      summary \in {<<"a">>, <<"b">>}, importance \in {None, Some(0), Some(1), Some(5), Some(6)} }
  \cup HalfSaves

ImportanceNext ==
  \/ \E params \in ImportanceSaves, r \in 0..MaxRand : Save(Handle, params, r)
  \/ \E id \in Ids : Get(Handle, id)
  \/ Tick

ImportanceSpec == Init /\ [][ImportanceNext]_vars

(***************************************************************************)
(* The store under saves with a ttl, the expiry sweep and the reads search *)
(* and getRecent, while time passes in steps of half the horizon.          *)
(***************************************************************************)
\* a save with a ttl of one second; a save of the same fingerprint without
\* ttl; a save of another fingerprint without ttl, and the same with ttl 0;
\* a save of a third fingerprint with a ttl of one second
TtlSaves ==
  { [summary |-> <<"a", "b", "c">>, text |-> <<"x">>, tags |-> None, paths |-> None,
     importance |-> None, ttl |-> Some(1)],
    [summary |-> <<"A", "B", "C">>, text |-> <<"x">>, tags |-> None, paths |-> None,
     importance |-> None, ttl |-> None],
    [summary |-> <<"a", "b", "c", " ", "d", "e", "f">>, text |-> <<"x">>, tags |-> None, paths |-> None,
     importance |-> None, ttl |-> None],
    [summary |-> <<"a", "b", "c", " ", "d", "e", "f">>, text |-> <<"x">>, tags |-> None, paths |-> None,
     importance |-> None, ttl |-> Some(0)],
    [summary |-> <<"d", "e", "f">>, text |-> <<"x">>, tags |-> None, paths |-> None,
     importance |-> None, ttl |-> Some(1)] }

\* searches for a word of every stored summary, with and without expired
\* records, k omitted or 1
TtlSearches ==
  { [q |-> <<"a", "b", "c">>, k |-> k, require_path_match |-> FALSE, tags |-> None,
     include_expired |-> ie] : k \in {None, Some(1)}, ie \in BOOLEAN }

TtlRecents ==
  { [k |-> k, include_expired |-> ie, path_prefix |-> None] :
      k \in {None, Some(1)}, ie \in BOOLEAN }

\* the ids save generates in this specification
TtlIds == {generateId(n * (MaxNow \div 2), 0) : n \in 0..2}

\* the ids a caller asks for, and the lists of at most two of them
ReadIds == TtlIds \cup {ProtoKey}

ReadIdLists ==
  {<<>>} \cup {<<a>> : a \in ReadIds} \cup {<<a, ProtoKey>> : a \in TtlIds}

TtlNext ==
  \/ \E params \in TtlSaves : Save(Handle, params, 0)
  \/ \E id \in TtlIds : Forget(Handle, id)
  \/ CleanupExpired(Handle)
  \/ Elapse(MaxNow \div 2)
  \/ \E params \in TtlSearches : Search(Handle, params)
  \/ \E params \in TtlRecents : GetRecent(Handle, params)
  \/ \E id \in ReadIds : Get(Handle, id)
  \/ \E ids \in ReadIdLists : GetMultiple(Handle, ids)

TtlSpec == Init /\ [][TtlNext]_vars

(***************************************************************************)
(* The ConceptStore instances of two projects.  Project pA saves concepts, *)
(* updates its allowlist, searches and previews; project pB reads.         *)
(***************************************************************************)
\* a save whose id is generated from the title
ConceptSaves ==
  { [id |-> None, title |-> <<"J", "W", "T", " ", "t", "o", "k", "e", "n", "s", "!">>, body |-> <<"j", "w", "t">>, tags |-> None,
     importance |-> None] }

\* ids a caller names: a seeded concept, the concept saved at time 0, no
\* concept
SeedId == <<"j", "w", "t", "-", "a", "u", "t", "h", "-", "v", "2">>

SavedId == <<"j", "w", "t", "-", "t", "o", "k", "e", "n", "s", "-", "v", "0">>

MissingId == <<"n", "o", "p", "e">>

AllowParams ==
  { [projectId |-> Handle, add |-> add, remove |-> remove, list |-> list] :
      add \in {None, Some(<<SeedId>>), Some(<<MissingId, SavedId>>)},
      remove \in {None, Some(<<SeedId, MissingId>>)},
      list \in BOOLEAN }

\* blank, wildcard, matching, matching nothing, and ill-formed queries
ConceptQueries == {<<>>, <<" ">>, <<"*">>, <<"j", "w", "t">>, <<"p", "a", "t", "t", "e", "r", "n">>, <<"z", "z", "z">>, <<"A", "N", "D">>}

\* every query without k, the queries of several results with k = 1
ConceptSearches ==
  { [q |-> q, k |-> k, allowlist |-> None, projectId |-> projectId] :
      q \in ConceptQueries, k \in {None}, projectId \in {None, Some(Handle)} }
  \cup
  { [q |-> q, k |-> Some(1), allowlist |-> None, projectId |-> projectId] :
      q \in {<<"*">>, <<"p", "a", "t", "t", "e", "r", "n">>}, projectId \in {None, Some(Handle)} }

\* the searches of the other project: unrestricted, for everything and for
\* a word of the saved concept
OtherSearches ==
  {params \in ConceptSearches :
     params.projectId = None /\ params.k = None /\ params.q \in {<<"*">>, <<"j", "w", "t">>}}

OtherProject == "pB"

ToolArgs ==
  { [q |-> q, k |-> None, allowlist |-> None] :
      q \in {None, Some(<<" ">>), Some(<<"j", "w", "t">>), Some(<<"z", "z", "z">>), Some(<<"A", "N", "D">>)} }
  \cup { [q |-> Some(<<"z", "z", "z">>), k |-> None, allowlist |-> Some(<<MissingId>>)] }

ConceptPreviews ==
  { [task |-> task, open_files |-> None, budget_bytes |-> None, top_k |-> None,
     mode |-> Some(mode)] :
      task \in {<<"j", "w", "t">>, <<"j", "w", "t", " ", "a", "p", "i">>}, mode \in {"smart", "soft"} }
  \cup
  { [task |-> task, open_files |-> None, budget_bytes |-> None, top_k |-> None,
     mode |-> Some(mode)] :
      task \in {<<"j", "w", "t">>, <<"A", "N", "D">>}, mode \in {"hard"} }
  \cup
  { [task |-> <<"A", "N", "D">>, open_files |-> None, budget_bytes |-> None, top_k |-> None,
     mode |-> Some("soft")] }

ConceptInit ==
  /\ memories = [p \in Projects |-> <<>>]
  /\ now = 0
  /\ ret = [op |-> "init"]
  /\ conceptDb = [p \in Projects |-> NewConceptStore(0)]
  /\ enhancedDb = NoStores
  /\ broker = [p \in Projects |-> NewBroker]
  /\ server = NewServer

ConceptNext ==
  \/ \E params \in ConceptSaves : ConceptSave(Handle, params)
  \/ \E params \in AllowParams : UpdateAllowlist(Handle, params)
  \/ \E params \in ConceptSearches : ConceptSearch(Handle, params)
  \/ \E params \in OtherSearches : ConceptSearch(OtherProject, params)
  \/ \E p \in Projects, id \in {SavedId, MissingId} : ConceptGet(p, id)
  \/ \E args \in ToolArgs : ConceptSearchTool(Handle, args)
  \/ \E params \in ConceptPreviews : PreviewOnStore(Handle, params)
  \/ Elapse(MaxNow)

ConceptSpec == ConceptInit /\ [][ConceptNext]_vars

(***************************************************************************)
(* One ConceptStoreEnhanced instance under save and search.                *)
(***************************************************************************)
EnhancedSaves ==
  { [title |-> <<"J", "W", "T", " ", "t", "o", "k", "e", "n", "s">>, body |-> <<"j", "w", "t">>, tags |-> Some(<<<<"j", "w", "t">>>>),
     importance |-> None, source |-> None],
    [title |-> <<"A", "P", "I", " ", "k", "e", "y", "s">>, body |-> <<"j", "w", "t", " ", "a", "p", "i">>, tags |-> Some(<<<<"a", "p", "i">>, <<"k", "e", "y">>>>),
     importance |-> Some(4), source |-> None],
    [title |-> <<"S", "S", "O", " ", "k", "e", "y", "s">>, body |-> <<"a", "p", "i">>, tags |-> Some(<<<<"k", "e", "y">>, <<"s", "s", "o">>, <<"a", "p", "i">>>>),
     importance |-> None, source |-> None] }

EnhancedSearches ==
  { [q |-> q, k |-> None, projectId |-> None] : q \in {<<>>, <<" ">>, <<"*">>, <<"j", "w", "t">>, <<"z", "z", "z">>} }
  \cup { [q |-> <<"*">>, k |-> Some(1), projectId |-> None] }

EnhancedInit ==
  /\ memories = [p \in Projects |-> <<>>]
  /\ now = 0
  /\ ret = [op |-> "init"]
  /\ conceptDb = [p \in {Handle} |-> NewConceptStore(0)]
  /\ enhancedDb = [p \in {Handle} |-> NewEnhancedStore]
  /\ broker = [p \in Projects |-> NewBroker]
  /\ server = NewServer

EnhancedNext ==
  \/ \E params \in EnhancedSaves : EnhancedSave(Handle, params, 0)
  \/ \E params \in EnhancedSearches : EnhancedSearch(Handle, params)
  \/ \E params \in {s \in ConceptSearches : s.projectId = None /\ Trim(s.q) \in {<<>>, Star}} :
       ConceptSearch(Handle, params)
  \/ Elapse(MaxNow)

EnhancedSpec == EnhancedInit /\ [][EnhancedNext]_vars

(***************************************************************************)
(* Searches with includeRelated over an enhanced store that saves have     *)
(* filled.                                                                  *)
(***************************************************************************)
\* the saves the store is filled from, in their order: 'Login' shares its
\* tag with three earlier concepts, 'Cache' shares its tag with 'Redis'
RelatedSaves ==
  << [title |-> <<"R", "e", "d", "i", "s">>, body |-> <<"s", "t", "o", "r", "e">>, tags |-> Some(<<<<"r", "e", "d", "i", "s">>>>),
      importance |-> Some(1), source |-> None],
     [title |-> <<"A", "u", "t", "h">>, body |-> <<"b", "a", "s", "i", "c", "s">>, tags |-> Some(<<<<"a", "u", "t", "h">>>>),
      importance |-> Some(1), source |-> None],
     [title |-> <<"T", "o", "k", "e", "n", "s">>, body |-> <<"j", "w", "t">>, tags |-> Some(<<<<"a", "u", "t", "h">>, <<"j", "w", "t">>>>),
      importance |-> None, source |-> None],
     [title |-> <<"S", "e", "s", "s", "i", "o", "n", "s">>, body |-> <<"s", "s", "o">>, tags |-> Some(<<<<"a", "u", "t", "h">>, <<"s", "s", "o">>>>),
      importance |-> Some(4), source |-> None],
     [title |-> <<"L", "o", "g", "i", "n">>, body |-> <<"f", "o", "r", "m">>, tags |-> Some(<<<<"a", "u", "t", "h">>>>),
      importance |-> Some(5), source |-> None],
     [title |-> <<"C", "a", "c", "h", "e">>, body |-> <<"r", "e", "d", "i", "s">>, tags |-> Some(<<<<"r", "e", "d", "i", "s">>>>),
      importance |-> Some(2), source |-> None] >>

\* the enhanced store after the saves of a sequence of parameters at time 0
RECURSIVE EnhancedStoreAfter(_)
EnhancedStoreAfter(saves) ==
  IF saves = <<>> THEN NewEnhancedStore
  ELSE enhancedSave(EnhancedStoreAfter(SubSeq(saves, 1, Len(saves) - 1)),
                    saves[Len(saves)], 0, 0).db

RelatedSearches ==
  { [q |-> q, k |-> k, projectId |-> None, includeRelated |-> related] :
      q \in {<<>>, <<"r", "e", "d", "i", "s">>}, k \in {None, Some(1), Some(2), Some(4)},
      related \in BOOLEAN }

RelatedInit ==
  /\ memories = [p \in Projects |-> <<>>]
  /\ now = 0
  /\ ret = [op |-> "init"]
  /\ conceptDb = [p \in {Handle} |-> NewConceptStore(0)]
  /\ enhancedDb = [p \in {Handle} |-> EnhancedStoreAfter(RelatedSaves)]
  /\ broker = [p \in Projects |-> NewBroker]
  /\ server = NewServer

RelatedNext ==
  \/ \E params \in RelatedSearches : EnhancedSearch(Handle, params)
  \/ Elapse(MaxNow)

RelatedSpec == RelatedInit /\ [][RelatedNext]_vars

(***************************************************************************)
(* The store under saves with a ttl, colliding saves and reads, while the  *)
(* interval timer of the handle keeps calling the sweep.                   *)
(***************************************************************************)
\* saves with a ttl of one second under two fingerprints
SweepSaves == {params \in TtlSaves : params.ttl = Some(1)}

SweepNext ==
  \/ \E params \in SweepSaves : Save(Handle, params, 0)
  \/ CleanupExpired(Handle)
  \/ Elapse(MaxNow \div 2)
  \/ \E params \in TtlSearches : Search(Handle, params)
  \/ \E id \in TtlIds : Get(Handle, id)

\* setInterval calls cleanupExpired again and again
SweepSpec == Init /\ [][SweepNext]_vars /\ WF_vars(CleanupExpired(Handle))

(***************************************************************************)
(* The stores of two projects, each under the calls of its own handle.     *)
(***************************************************************************)
\* two saves of one fingerprint: with a ttl of one second, and without ttl
IsoSaves == {params \in TtlSaves : ToLowerCase(params.summary) = <<"a", "b", "c">>}

\* the reads that return expired records as well
IsoRecents == {params \in TtlRecents : params.k = None /\ params.include_expired}

IsoSearches == {params \in TtlSearches : params.k = None /\ params.include_expired}

IsoNext ==
  \/ \E p \in Projects, params \in IsoSaves : Save(p, params, 0)
  \/ \E p \in Projects, id \in TtlIds : Forget(p, id)
  \/ \E p \in Projects : CleanupExpired(p)
  \/ Elapse(MaxNow \div 2)
  \/ \E p \in Projects, params \in IsoSearches : Search(p, params)
  \/ \E p \in Projects, params \in IsoRecents : GetRecent(p, params)
  \/ \E p \in Projects, id \in TtlIds : Get(p, id)
  \/ \E p \in Projects, id \in TtlIds : GetMultiple(p, <<id>>)

IsoSpec == Init /\ [][IsoNext]_vars

(***************************************************************************)
(* The context broker over stores that saves have filled.                  *)
(***************************************************************************)
\* the store of project p after the saves of a sequence of parameters with
\* pairwise distinct fingerprints, the i-th at time i
StoreAfter(p, saves) ==
  [i \in 1..Len(saves) |-> InsertedRow(p, generateId(i, 0), saves[i], i)]

\* the saves the stores are filled from: a record with a relative path, the
\* same path stored absolute under a summary that differs in punctuation
\* only, two records without a matching path, one of them more important
PreviewSaves ==
  { [summary |-> <<"A", "u", "t", "h", " ", "f", "l", "o", "w">>, text |-> <<"x">>, tags |-> Some(<< <<"a", "u", "t", "h">> >>),
     paths |-> Some(<< <<"s", "r", "c", "/", "m", "i", "d", "d", "l", "e", "w", "a", "r", "e", "/", "a", "u", "t", "h", ".", "t", "s">> >>), importance |-> None, ttl |-> None],
    [summary |-> <<"a", "u", "t", "h", " ", "f", "l", "o", "w", "!">>, text |-> <<"x">>, tags |-> Some(<< <<"a", "u", "t", "h">> >>),
     paths |-> Some(<< <<"/", "s", "r", "c", "/", "m", "i", "d", "d", "l", "e", "w", "a", "r", "e", "/", "a", "u", "t", "h", ".", "t", "s">> >>), importance |-> None, ttl |-> None],
    [summary |-> <<"A", "u", "t", "h", " ", "n", "o", "t", "e">>, text |-> <<"x">>, tags |-> Some(<< <<"a", "u", "t", "h">> >>),
     paths |-> None, importance |-> None, ttl |-> None],
    [summary |-> <<"A", "u", "t", "h", " ", "p", "l", "a", "n">>, text |-> <<"x">>, tags |-> Some(<< <<"a", "u", "t", "h">> >>),
     paths |-> Some(<< <<"d", "o", "c", "s", "/", "p", "l", "a", "n", ".", "m", "d">> >>), importance |-> Some(5), ttl |-> None] }

\* the stores: empty, one record, two records saved in either order
PreviewStores ==
  { <<>> } \cup { <<a>> : a \in PreviewSaves }
    \cup { s \in PreviewSaves \X PreviewSaves : s[1] # s[2] }

\* what the concept store returns: nothing, or a concept whose title is a
\* stored summary in other letters, alone or before a concept of low score
PreviewConcepts ==
  LET flow == [concept |-> [id |-> <<"c", "1">>, title |-> <<"A", "U", "T", "H", " ", " ", "f", "l", "o", "w">>, body |-> <<"y">>,
                            tags |-> << <<"a", "u", "t", "h">> >>, importance |-> 3],
               score |-> (9 * ScoreUnit) \div 10]
      weak == [concept |-> [id |-> <<"c", "2">>, title |-> <<"T", "o", "k", "e", "n", "s">>, body |-> <<"y">>,
                            tags |-> <<>>, importance |-> 5],
               score |-> (4 * ScoreUnit) \div 10]
  IN { <<>>, <<flow>>, <<flow, weak>> }

\* budgets are multiples of BudgetStep bytes, up to MaxBudgetSteps of them
BudgetStep == 70

MaxBudgetSteps == 2

\* top_k ranges over 0 .. MaxTopK
MaxTopK == 2

PreviewParams ==
  { [task |-> task, open_files |-> files, budget_bytes |-> budget, top_k |-> k,
     mode |-> mode] :
      task \in { <<"a", "u", "t", "h">>, <<"f", "i", "x", " ", "a", "u", "t", "h">>, <<>> },
      files \in { None, Some(<< <<"s", "r", "c", "/", "m", "i", "d", "d", "l", "e", "w", "a", "r", "e", "/", "a", "u", "t", "h", ".", "t", "s">> >>),
                  Some(<< <<"/", "s", "r", "c", "/", "m", "i", "d", "d", "l", "e", "w", "a", "r", "e", "/", "a", "u", "t", "h", ".", "t", "s">> >>) },
      budget \in {None} \cup {Some(n * BudgetStep) : n \in 0..MaxBudgetSteps},
      k \in {None} \cup {Some(n) : n \in 0..MaxTopK},
      mode \in { None, Some("hard") } }

PreviewInit ==
  /\ \E saves \in PreviewStores :
       memories = [p \in Projects |-> IF p = Handle THEN StoreAfter(p, saves) ELSE <<>>]
  /\ now = MaxNow
  /\ ret = [op |-> "init"]
  /\ conceptDb = NoStores
  /\ enhancedDb = NoStores
  /\ broker = [p \in Projects |-> NewBroker]
  /\ server = NewServer

\* a preview changes neither the store nor the clock: one call is made from
\* each store
PreviewNext ==
  /\ ret.op = "init"
  /\ \E params \in PreviewParams, concepts \in PreviewConcepts :
       Preview(Handle, params, concepts)

PreviewSpec == PreviewInit /\ [][PreviewNext]_vars


(***************************************************************************)
(* The broker of one project under getRules, setRules and preview.         *)
(***************************************************************************)
\* a minimum importance above the stored records' default, a maximum age
\* below the age of the stored records, two fields at once, and no field
RuleUpdates ==
  { [minImportance |-> 4], [maxMemoryAge |-> Ms(0, 1000)],
    [minImportance |-> 1, dedupeThreshold |-> ScoreUnit \div 2], <<>> }

\* a budget between the sizes of the stored records' injections
TightBudget == 40

RulesPreviews ==
  { [task |-> <<"a", "u", "t", "h">>, open_files |-> None, budget_bytes |-> budget, top_k |-> None,
     mode |-> Some("hard")] : budget \in {None, Some(TightBudget)} }

RulesInit ==
  /\ \E saves \in {s \in PreviewStores : Len(s) = 2} :
       memories = [p \in Projects |-> IF p = Handle THEN StoreAfter(p, saves) ELSE <<>>]
  /\ now = MaxNow
  /\ ret = [op |-> "init"]
  /\ conceptDb = NoStores
  /\ enhancedDb = NoStores
  /\ broker = [p \in Projects |-> NewBroker]
  /\ server = NewServer

RulesNext ==
  \/ GetRules(Handle)
  \/ \E rules \in RuleUpdates : SetRules(Handle, rules)
  \/ \E v \in {1, 5} : WriteReturned(Handle, "minImportance", v)
  \/ \E params \in RulesPreviews : Preview(Handle, params, <<>>)

RulesSpec == RulesInit /\ [][RulesNext]_vars

(***************************************************************************)
(* The search cascade over stores that saves have filled.                  *)
(***************************************************************************)
SearchSaves ==
  { [summary |-> <<"a", "b", "c", " ", "o", "r", " ", "a", "b", "d">>, text |-> <<"x">>, tags |-> None, paths |-> None,
     importance |-> None, ttl |-> None],
    [summary |-> <<"a", "b", "c">>, text |-> <<"a", ".", "t", "s">>, tags |-> None, paths |-> Some(<< <<"a", ".", "t", "s">> >>),
     importance |-> None, ttl |-> None],
    [summary |-> <<"a", "n", "d", " ", "x", "y", "z">>, text |-> <<"x">>, tags |-> None, paths |-> None,
     importance |-> Some(5), ttl |-> None],
    [summary |-> <<"o", "l", "d">>, text |-> <<"x">>, tags |-> None, paths |-> Some(<< <<"s", "r", "c", "/", "m", "y", "-", "f", "i", "l", "e", ".", "t", "s">> >>),
     importance |-> None, ttl |-> Some(1)] }

\* the stores: empty, one record, two records saved in either order
SearchStores ==
  { <<>> } \cup { <<a>> : a \in SearchSaves }
    \cup { s \in SearchSaves \X SearchSaves : s[1] # s[2] }

\* plain words, several words, punctuation, the empty string, operator
\* words, an unbalanced quote, short words, a path
Queries ==
  { <<"a", "b", "c">>, <<"a", "b", "c", " ", "a", "b", "d">>, <<"a", "b", "d", " ", "a", "b", "c">>, <<"a", "b", "c", "-", "a", "b", "d">>, <<>>, <<"A", "N", "D">>, <<"O", "R">>, <<"-">>, <<"O", "R", "-">>,
    <<"\"", "a", "b", "c">>, <<"a", "b", " ", "c", "d">>, <<"a", "b", " ", "a", "b", "c">>, <<"x", "y", "z", " ", "a", "b", "c">>, <<"a", ".", "t", "s", " ", "a", "b", "c">>,
    <<"a", "b", "c", ",", " ", "a", "b", "d">> }

\* k is omitted or at most MaxK
MaxK == 1

SearchParams ==
  { [q |-> q, k |-> k, require_path_match |-> rpm, tags |-> None,
     include_expired |-> FALSE] :
      q \in Queries, k \in {None} \cup {Some(n) : n \in 1..MaxK}, rpm \in BOOLEAN }

\* getRecent without path prefix and with the empty one, with prefixes of
\* the stored paths, and with prefixes that hold other letter case or a
\* character LIKE reads as a wildcard
RecentParams ==
  { [k |-> k, include_expired |-> ie, path_prefix |-> pre] :
      k \in {None} \cup {Some(n) : n \in 1..MaxK}, ie \in BOOLEAN,
      pre \in {None, Some(<<>>), Some(<<"s", "r", "c", "/">>), Some(<<"a", ".">>), Some(<<"S", "R", "C", "/">>),
               Some(<<"s", "r", "c", "/", "m", "y", "_">>), Some(<<"%", ".", "t", "s">>)} }

SearchInit ==
  /\ \E saves \in SearchStores :
       memories = [p \in Projects |-> IF p = Handle THEN StoreAfter(p, saves) ELSE <<>>]
  /\ now = MaxNow
  /\ ret = [op |-> "init"]
  /\ conceptDb = NoStores
  /\ enhancedDb = NoStores
  /\ broker = [p \in Projects |-> NewBroker]
  /\ server = NewServer

\* a search changes neither the store nor the clock: one call is made from
\* each store
SearchNext ==
  /\ ret.op = "init"
  /\ \/ \E params \in SearchParams :
          \/ Search(Handle, params)
          \/ SearchWithDebug(Handle, params)
     \/ \E params \in RecentParams : GetRecent(Handle, params)

SearchSpec == SearchInit /\ [][SearchNext]_vars



(***************************************************************************)
(* The server under tool calls, sweep ticks and shutdown.  Each project    *)
(* has a record of its own and a record that expired before the server     *)
(* started; the working directory of the server is either project.         *)
(***************************************************************************)
ServerSaves ==
  [pA |-> << [summary |-> <<"a", "b", "c">>, text |-> <<"x">>, tags |-> None, paths |-> None,
              importance |-> None, ttl |-> None],
             [summary |-> <<"o", "l", "d", " ", "a", "b", "c">>, text |-> <<"x">>, tags |-> None, paths |-> None,
              importance |-> None, ttl |-> Some(1)] >>,
   pB |-> << [summary |-> <<"x", "y", "z">>, text |-> <<"x">>, tags |-> None, paths |-> None,
              importance |-> None, ttl |-> None],
             [summary |-> <<"o", "l", "d", " ", "x", "y", "z">>, text |-> <<"x">>, tags |-> None, paths |-> None,
              importance |-> None, ttl |-> Some(1)] >>]

ServerSearches ==
  { [debug |-> dq[1],
     params |-> [q |-> dq[2], k |-> None, require_path_match |-> FALSE, tags |-> None,
                 include_expired |-> FALSE]] :
      dq \in {<<FALSE, <<"a", "b", "c">>>>, <<TRUE, <<"x", "y", "z">>>>} }

ServerAllowArgs ==
  { [projectId |-> "global", add |-> ar[1], remove |-> ar[2], list |-> TRUE] :
      ar \in {<<Some(<<SeedId>>), None>>, <<None, Some(<<SeedId>>)>>} }

ServerInit ==
  /\ memories = [p \in Projects |-> StoreAfter(p, ServerSaves[p])]
  /\ now = MaxNow
  /\ ret = [op |-> "init"]
  /\ conceptDb = [p \in Projects |-> NewConceptStore(0)]
  /\ enhancedDb = NoStores
  /\ broker = [p \in Projects |-> NewBroker]
  /\ server \in {[NewServer EXCEPT !.workingDir = p] : p \in Projects}

ServerNext ==
  \/ \E args \in ServerSearches : MemorySearchTool(args)
  \/ \E p \in Projects : ProjectSwitchTool(p)
  \/ \E args \in ServerAllowArgs : ConceptAllowlistTool(args)
  \/ SystemMigrateTool
  \/ \E i \in 1..Len(server.handles) : SweepTick(i)
  \/ Shutdown

ServerSpec == ServerInit /\ [][ServerNext]_vars

(***************************************************************************)
(* Properties of the store.                                                *)
(***************************************************************************)
\* the dedupe fingerprint of a summary and a list of paths: the lowercased,
\* trimmed summary and the sorted paths
FingerprintOf(summary, paths) ==
  <<Trim(ToLowerCase(summary)), SortStrings(paths)>>

Fingerprint(row) == FingerprintOf(row.summary, row.paths)

\* the rows of a table whose fingerprint is that of the parameters of a save
Matching(rows, params) ==
  {i \in 1..Len(rows) :
     Fingerprint(rows[i]) = FingerprintOf(params.summary, OrEmpty(params.paths))}

SameStrings(a, b) == SortStrings(a) = SortStrings(b)

\* the effect C9 states for a save with parameters params that returned id,
\* taking the table of its project from old to new at time t
SaveEffect(old, new, params, id, t) ==
  LET m == Matching(old, params)
  IN IF m # {}
     THEN /\ Len(new) = Len(old)
          /\ \E i \in m :
               /\ id = old[i].id
               /\ new[i].id = old[i].id
               /\ new[i].summary = params.summary
               /\ new[i].text = params.text
               /\ IsSome(params.tags) => new[i].tags = params.tags[1]
               /\ IsSome(params.paths) => SameStrings(new[i].paths, params.paths[1])
               /\ IsSome(params.importance) => new[i].importance = params.importance[1]
               /\ new[i].updated_at = t
               /\ new[i].created_at = old[i].created_at
               /\ \A j \in 1..Len(old) : j # i => new[j] = old[j]
     ELSE /\ Len(new) = Len(old) + 1
          /\ SubSeq(new, 1, Len(old)) = old
          /\ id = new[Len(new)].id
          /\ \A j \in 1..Len(old) : new[j].id # new[Len(new)].id

C10_Forget ==
  /\ [](ret.op = "forget" /\ ret.ok => get(ret.project, ret.id) = None)
  /\ [][ret'.op = "forget" =>
         LET p == ret'.project
             id == ret'.id
             old == memories[p]
             new == memories'[p]
             stored == {i \in 1..Len(old) : old[i].id = id}
         IN /\ IF stored = {}
               THEN ret'.ok = FALSE /\ ret'.message # "" /\ memories' = memories
               ELSE /\ ret'.ok = TRUE
                    /\ Cardinality(stored) = 1
                    /\ new = RemoveAt(old, stored)
                    /\ \A q \in Projects : q # p => memories'[q] = memories[q]
            /\ (ret.op = "forget" /\ ret.project = p /\ ret.id = id)
                 => ret'.ok = FALSE /\ memories' = memories]_vars

\* C10 witness: a forget has removed one of two stored records
C10_Witness ==
  /\ ret.op = "forget" /\ ret.ok
  /\ Len(memories[Handle]) = 1
  /\ get(Handle, ret.id) = None


(***************************************************************************)
(* Properties of expiry.                                                   *)
(***************************************************************************)
\* the ids a read returned
ReturnedIds ==
  IF ret.op = "search"
  THEN {ret.out.results[i].memory.id : i \in 1..Len(ret.out.results)}
  ELSE {ret.out[i].id : i \in 1..Len(ret.out)}

\* the number of records a read returned
ReturnedCount == IF ret.op = "search" THEN Len(ret.out.results) ELSE Len(ret.out)

\* whether time t is later than created_at + ttl seconds of a row with a ttl
PastExpiry(row, t) ==
  IsSome(row.ttl) /\ t > row.created_at + row.ttl[1] * MsPerSec

\* whether a row matches the read: every row matches a getRecent without
\* path prefix, a search is matched by the rows that hold its word
MatchesRead(row) ==
  ret.op = "getRecent" \/ Includes(ToLowerCase(row.summary), ToLowerCase(ret.params.q))

\* the instants at which a record of the model can expire
ExpiryTimes == {n * (MaxNow \div 2) + MsPerSec : n \in 0..2}

\* the stored record id expires at instant e
StoredWithExpiry(id, e) ==
  \E i \in 1..Len(memories[Handle]) :
    /\ memories[Handle][i].id = id
    /\ IsSome(memories[Handle][i].ttl)
    /\ memories[Handle][i].created_at + memories[Handle][i].ttl[1] * MsPerSec = e

\* the ids a getRecent with includeExpired and without k returns
RecentIdsWithExpired ==
  {getRecent(Handle, [k |-> None, include_expired |-> TRUE, path_prefix |-> None], now)[i].id :
     i \in 1..Len(getRecent(Handle, [k |-> None, include_expired |-> TRUE,
                                     path_prefix |-> None], now))}

StoredRecord(id) ==
  IF \E i \in 1..Len(memories[Handle]) : memories[Handle][i].id = id
  THEN Some(rowToMemory(CHOOSE row \in {memories[Handle][i] : i \in 1..Len(memories[Handle])} :
                          row.id = id))
  ELSE None

\* C11: get returns the stored record with the id, or null; getMultiple
\* returns a map whose keys are exactly the requested ids, each stored id
\* mapped to its record and every other id to null
C11_GetAndGetMultiple ==
  /\ ret.op = "get" => ret.out = StoredRecord(ret.id)
  /\ ret.op = "getMultiple" =>
       /\ DOMAIN ret.out = {ret.ids[i] : i \in 1..Len(ret.ids)}
       /\ \A id \in DOMAIN ret.out : ret.out[id] = StoredRecord(id)

\* C11 for requests that do not name '__proto__'
C11_WithoutProtoKey ==
  /\ ret.op = "get" => ret.out = StoredRecord(ret.id)
  /\ (ret.op = "getMultiple" /\ \A i \in 1..Len(ret.ids) : ret.ids[i] # ProtoKey) =>
       /\ DOMAIN ret.out = {ret.ids[i] : i \in 1..Len(ret.ids)}
       /\ \A id \in DOMAIN ret.out : ret.out[id] = StoredRecord(id)


(***************************************************************************)
(* Properties of preview.                                                  *)
(***************************************************************************)
\* the sum of the byteSize of the first n injections
RECURSIVE BytesOfFirst(_, _)
BytesOfFirst(injections, n) ==
  IF n = 0 THEN 0 ELSE BytesOfFirst(injections, n - 1) + injections[n].byteSize

TotalBytes(injections) == BytesOfFirst(injections, Len(injections))

\* the limits of the last preview call
BudgetOf(params) ==
  IF IsSome(params.budget_bytes) THEN params.budget_bytes[1] ELSE DefaultBudgetBytes

TopKOf(params) == IF IsSome(params.top_k) THEN params.top_k[1] ELSE DefaultTopK

\* the sorted candidates of the last preview call
CandidatesOfCall ==
  previewCandidates(ret.project, ret.params, ret.concepts, ret.at).scoredCandidates

\* C2: for every preview result the byteSize of the injections sums to at
\* most budget_bytes, there are at most top_k injections, and budgetUsed is
\* that sum
C2_BudgetRespected ==
  ret.op = "preview" =>
    /\ TotalBytes(ret.out.injections) <= BudgetOf(ret.params)
    /\ Len(ret.out.injections) <= TopKOf(ret.params)
    /\ ret.out.budgetUsed = TotalBytes(ret.out.injections)

\* a preview whose selection the budget has cut: the first candidates are
\* injected, the next one would exceed budget_bytes, top_k is not reached
C2_Witness ==
  /\ ret.op = "preview"
  /\ LET n == Len(ret.out.injections)
     IN /\ n >= 1
        /\ n < TopKOf(ret.params)
        /\ n < Len(CandidatesOfCall)
        /\ ret.out.injections = SubSeq(CandidatesOfCall, 1, n)
        /\ TotalBytes(ret.out.injections) + CandidatesOfCall[n + 1].byteSize
             > BudgetOf(ret.params)

\* the normalized summary: the words left when the case is folded, every
\* character other than a letter, a digit, '_' and whitespace is removed,
\* and the text is cut at its whitespace
SummaryWords(summary) ==
  SelectSeq(SplitSpaces(RemoveSpecial(ToLowerCase(summary))), LAMBDA w : w # <<>>)

\* C3: no two injections of one preview result have the same normalized
\* summary, whether they are memories or concepts
C3_NoDuplicateSummary ==
  ret.op = "preview" =>
    \A i, j \in 1..Len(ret.out.injections) :
      i # j => SummaryWords(ret.out.injections[i].summary)
                 # SummaryWords(ret.out.injections[j].summary)

\* a preview with the default limits whose candidates hold a memory and a
\* concept of the same normalized summary, the first of which is injected
C3_Witness ==
  /\ ret.op = "preview"
  /\ ~IsSome(ret.params.budget_bytes)
  /\ ~IsSome(ret.params.top_k)
  /\ \E i, j \in 1..Len(CandidatesOfCall) :
       /\ i < j
       /\ CandidatesOfCall[i].type = "memory"
       /\ CandidatesOfCall[j].type = "concept"
       /\ SummaryWords(CandidatesOfCall[i].summary) = SummaryWords(CandidatesOfCall[j].summary)
       /\ \E n \in 1..Len(ret.out.injections) : ret.out.injections[n] = CandidatesOfCall[i]
  /\ Len(ret.out.injections) < Len(CandidatesOfCall)

\* the segments of a path, without a final '*'
Segments(path) ==
  SelectSeq(Split(path, "/"), LAMBDA x : x # <<>> /\ x # <<"*">>)

\* file lies under path: the segments of path begin the segments of file
LiesUnder(file, path) ==
  /\ Segments(path) # <<>>
  /\ Len(Segments(path)) <= Len(Segments(file))
  /\ SubSeq(Segments(file), 1, Len(Segments(path))) = Segments(path)

\* the task reduces to a single term
SingleTerm(task) ==
  LET q == extractSearchTerms(task)
  IN EndsWithStar(q) /\ ~HasChar(q, " ")

\* C8: in a preview with a single-term task and open files, a memory with a
\* stored path some open file lies under scores strictly higher than, and
\* precedes, a memory with the same tags none of whose paths an open file
\* lies under
C8_PathDominance ==
  (ret.op = "preview" /\ SingleTerm(ret.params.task) /\ IsSome(ret.params.open_files)) =>
    LET files == ret.params.open_files[1]
        c == CandidatesOfCall
        Row(i) == get(ret.project, c[i].id)[1]
        Under(i) == \E f \in 1..Len(files), k \in 1..Len(Row(i).paths) :
                      LiesUnder(files[f], Row(i).paths[k])
    IN \A i, j \in 1..Len(c) :
         ( /\ c[i].type = "memory"
           /\ c[j].type = "memory"
           /\ Row(i).tags = Row(j).tags
           /\ Under(i)
           /\ ~Under(j) )
         => (c[i].score > c[j].score /\ i < j)


(***************************************************************************)
(* Properties of the search cascade.                                       *)
(***************************************************************************)
\* the whitespace-delimited terms of at least three characters
Terms(q) == SelectSeq(SplitSpaces(q), LAMBDA w : Len(w) >= 3)

\* q with every character other than a letter, a digit, '_' and whitespace
\* replaced by a space, whitespace collapsed and trimmed
WithoutPunctuation(q) ==
  Trim(CollapseSpaces([i \in 1..Len(q) |->
                         IF IsWordChar(q[i]) \/ IsSpace(q[i]) THEN q[i] ELSE " "]))

\* the query of stage n for the original query q
StageQuery(n, q) ==
  CASE n = 1 -> q
    [] n = 2 -> WithoutPunctuation(q)
    [] n = 3 -> Join(Terms(q), <<" ", "O", "R", " ">>)
    [] n = 4 -> Terms(q)[1]

\* the stages that have a query to run
HasStage(n, q) ==
  CASE n = 1 -> TRUE
    [] n = 2 -> HasSpecial(q)
    [] n = 3 -> Len(Terms(q)) >= 2
    [] n = 4 -> Len(Terms(q)) >= 1

\* what a stage yielded: nothing when its query failed
Yield(call) == IF call.threw THEN <<>> ELSE call.results

\* C5: search runs its stages in the order 1, 2, 3, 4, each with the query
\* of its stage, a stage only after every earlier one yielded nothing; it
\* returns the results of the first stage that yielded any, and an empty
\* list only when no stage yielded any
C5_CascadeOrder ==
  ret.op = "search" =>
    LET calls == ret.out.calls
        q == ret.params.q
    IN /\ Len(calls) >= 1
       /\ calls[1].stage = 1
       /\ \A i \in 1..Len(calls) :
            /\ calls[i].stage \in 1..4
            /\ HasStage(calls[i].stage, q)
            /\ calls[i].q = StageQuery(calls[i].stage, q)
            /\ Yield(calls[i])
                 = executeSearch(ret.project, [ret.params EXCEPT !.q = calls[i].q],
                                 ret.at).results
       /\ \A i, j \in 1..Len(calls) : i < j => calls[i].stage < calls[j].stage
       /\ \A i \in 1..(Len(calls) - 1) : Yield(calls[i]) = <<>>
       /\ ret.out.results = Yield(calls[Len(calls)])
       /\ ret.out.results = <<>> => \A i \in 1..Len(calls) : Yield(calls[i]) = <<>>

\* a search that the third stage answers, after two stages that yielded
\* nothing
C5_Witness ==
  /\ ret.op = "search"
  /\ Len(ret.out.calls) = 3
  /\ ret.out.calls[3].stage = 3
  /\ ret.out.results # <<>>

\* C6: search and searchWithDebug never raise: a stage whose query fails
\* counts as one that yielded nothing, the later stages that have a query
\* are still run, and when every stage fails or yields nothing the result
\* is the empty list
C6_NeverRaises ==
  ret.op \in {"search", "searchWithDebug"} =>
    LET calls == ret.out.calls
        q == ret.params.q
    IN /\ ~ret.out.raised
       /\ \A i \in 1..Len(calls) :
            calls[i].threw =>
              \A n \in 1..4 :
                (n > calls[i].stage /\ HasStage(n, q))
                  => \E j \in 1..Len(calls) : calls[j].stage = n
       /\ (\A i \in 1..Len(calls) : calls[i].threw \/ calls[i].results = <<>>)
            => ret.out.results = <<>>

\* a call in which a stage after the first failed and that returned the empty
\* list
C6_Witness ==
  /\ ret.op \in {"search", "searchWithDebug"}
  /\ Len(ret.out.calls) >= 2
  /\ \E i \in 2..Len(ret.out.calls) : ret.out.calls[i].threw
  /\ ~ret.out.raised
  /\ ret.out.results = <<>>

\* the identifier of a fallback stage
StageName(n) ==
  CASE n = 2 -> "removed_special_chars"
    [] n = 3 -> "or_search"
    [] n = 4 -> "broad_search"

RanksBefore(a, b) ==
  \/ a.score > b.score
  \/ a.score = b.score /\ a.memory.importance > b.memory.importance
  \/ /\ a.score = b.score /\ a.memory.importance = b.memory.importance
     /\ a.memory.created_at > b.memory.created_at

\* every match of the query of the stage that answered, k left aside
AllMatches ==
  executeSearch(ret.project,
                [ret.params EXCEPT !.q = ret.out.calls[Len(ret.out.calls)].q, !.k = None],
                ret.at).results

\* C12: the results of search are ranked best-first, ties in relevance by
\* higher importance and then newer created_at, and no match left out by
\* the limit k ranks before a returned one
C12_RankedBestFirst ==
  ret.op = "search" =>
    /\ \A i, j \in 1..Len(ret.out.results) :
         i < j => ~RanksBefore(ret.out.results[j], ret.out.results[i])
    /\ \A i \in 1..Len(ret.out.results), j \in 1..Len(AllMatches) :
         (\A n \in 1..Len(ret.out.results) :
            ret.out.results[n].memory.id # AllMatches[j].memory.id)
           => ~RanksBefore(AllMatches[j], ret.out.results[i])

\* C12 for results of equal relevance: higher importance first, then newer
C12_TiesRanked ==
  ret.op = "search" =>
    \A i, j \in 1..Len(ret.out.results) :
      (i < j /\ ret.out.results[i].score = ret.out.results[j].score)
        => ~RanksBefore(ret.out.results[j], ret.out.results[i])


(***************************************************************************)
(* Properties of getRecent.                                                *)
(***************************************************************************)
\* whether a stored row passes the filters of the getRecent call in ret, a
\* path prefix read as a prefix of the stored path
PassesRecentFilters(row) ==
  /\ row.project_id = ret.project
  /\ ret.params.include_expired
       \/ ~IsSome(row.expires_at) \/ row.expires_at[1] > ret.at
  /\ (IsSome(ret.params.path_prefix) /\ ret.params.path_prefix[1] # <<>>)
       => \E n \in 1..Len(row.paths) : StartsWith(row.paths[n], ret.params.path_prefix[1])

\* the stored row of a returned record
StoredRowOf(memory) ==
  CHOOSE row \in {memories[ret.project][i] : i \in 1..Len(memories[ret.project])} :
    row.id = memory.id

\* the ids of the returned records
RecentIds == {ret.out[i].id : i \in 1..Len(ret.out)}

\* C13: getRecent returns at most k records (10 by default), newest first,
\* every one a stored record of the project that passes the expiry and
\* path-prefix filters, and omits no record that passes them and is newer
\* than a returned one
C13_GetRecent ==
  ret.op = "getRecent" =>
    /\ Len(ret.out) <= OrDefault(ret.params.k, DefaultK)
    /\ \A i, j \in 1..Len(ret.out) : i < j => ret.out[i].created_at >= ret.out[j].created_at
    /\ \A i \in 1..Len(ret.out) :
         /\ \E n \in 1..Len(memories[ret.project]) :
              rowToMemory(memories[ret.project][n]) = ret.out[i]
         /\ PassesRecentFilters(StoredRowOf(ret.out[i]))
    /\ \A n \in 1..Len(memories[ret.project]) :
         ( /\ PassesRecentFilters(memories[ret.project][n])
           /\ \E i \in 1..Len(ret.out) :
                memories[ret.project][n].created_at > ret.out[i].created_at )
           => memories[ret.project][n].id \in RecentIds

\* C13 for calls whose prefix holds neither upper-case letters nor '%' or '_'
C13_PlainPrefix ==
  ( /\ ret.op = "getRecent"
    /\ \/ ~IsSome(ret.params.path_prefix)
       \/ /\ ~HasChar(ret.params.path_prefix[1], "%")
          /\ ~HasChar(ret.params.path_prefix[1], "_")
          /\ ret.params.path_prefix[1] = ToLowerCase(ret.params.path_prefix[1]) )
    => C13_GetRecent

(***************************************************************************)
(* Properties of the isolation of projects.                                *)
(***************************************************************************)
\* the records a call returned (the { id } of an updating save is no record)
ReturnedRecords ==
  CASE ret.op = "save" /\ ret.outcome = "inserted" -> {ret.out}
    [] ret.op = "search" ->
         {ret.out.results[i].memory : i \in 1..Len(ret.out.results)}
    [] ret.op = "getRecent" -> {ret.out[i] : i \in 1..Len(ret.out)}
    [] ret.op = "get" -> {ret.out[i] : i \in 1..Len(ret.out)}
    [] ret.op = "getMultiple" ->
         UNION {{ret.out[id][i] : i \in 1..Len(ret.out[id])} : id \in DOMAIN ret.out}
    [] OTHER -> {}

\* an expired record of project p is stored
HoldsExpired(p) ==
  \E i \in 1..Len(memories[p]) : Expired(memories[p][i], now)

\* C14: every record returned by save, search, getRecent, get or getMultiple
\* of a project's handle carries that project's id (an updating save returns
\* the id of a row of that project), and a save, a forget or a sweep on one
\* project's handle leaves the store of every other project as it was.
C14_ProjectIsolation ==
  [][ /\ \A m \in ReturnedRecords' : m.project_id = ret'.project
      /\ (ret'.op = "save" /\ ret'.outcome = "updated")
            => \E i \in 1..Len(memories'[ret'.project]) :
                  /\ memories'[ret'.project][i].id = ret'.out.id
                  /\ memories'[ret'.project][i].project_id = ret'.project
      /\ ret'.op \in {"save", "forget", "sweep"}
            => \A q \in Projects \ {ret'.project} : memories'[q] = memories[q] ]_vars

\* a sweep on pA's handle has removed a record while pB holds an expired one
C14_Witness ==
  /\ ret.op = "sweep" /\ ret.project = "pA" /\ ret.changes > 0
  /\ HoldsExpired("pB")

(***************************************************************************)
(* Properties of the expiry sweep.                                         *)
(***************************************************************************)
\* the rows of a table whose expires_at is not earlier than instant t
RowsNotDue(rows, t) ==
  SelectSeq(rows, LAMBDA row : ~(IsSome(row.expires_at) /\ row.expires_at[1] < t))

\* the ids of the rows of a table
IdsOf(rows) == {rows[i].id : i \in 1..Len(rows)}

\* C20: a sweep deletes exactly the rows whose expires_at is earlier than the
\* time of the sweep and changes nothing else (the rows without ttl and the
\* rows that expire later stay as they are), and a row leaves the table only
\* through a forget of its id or through a sweep after its expiry.
C20_SweepFrame ==
  [][ /\ ret'.op = "sweep"
            => /\ memories'[ret'.project] = RowsNotDue(memories[ret'.project], now)
               /\ ret'.changes = Len(memories[ret'.project]) - Len(memories'[ret'.project])
               /\ \A q \in Projects \ {ret'.project} : memories'[q] = memories[q]
               /\ now' = now
      /\ \A p \in Projects : \A i \in 1..Len(memories[p]) :
            memories[p][i].id \notin IdsOf(memories'[p])
              => \/ ret'.op = "forget" /\ ret'.project = p /\ ret'.id = memories[p][i].id
                 \/ /\ ret'.op = "sweep" /\ ret'.project = p
                    /\ IsSome(memories[p][i].expires_at)
                    /\ memories[p][i].expires_at[1] < now ]_vars

\* a sweep has removed a row and has kept a row without ttl and a row that
\* expires later
C20_Witness ==
  /\ ret.op = "sweep" /\ ret.changes > 0
  /\ \E i \in 1..Len(memories[ret.project]) : memories[ret.project][i].expires_at = None
  /\ \E i \in 1..Len(memories[ret.project]) :
        /\ IsSome(memories[ret.project][i].expires_at)
        /\ memories[ret.project][i].expires_at[1] > now

(***************************************************************************)
(* Properties of the concept search under an allowlist.                    *)
(***************************************************************************)
\* the ids of the concepts a concept search returned
FoundConceptIds ==
  {ret.out.results[i].concept.id : i \in 1..Len(ret.out.results)}

\* the ids of the concepts a preview injected
InjectedConceptIds ==
  {ret.out.injections[i].id :
     i \in {j \in 1..Len(ret.out.injections) : ret.out.injections[j].type = "concept"}}

\* C15: a concept search with a projectId returns only concepts on that
\* project's allowlist, for the wildcard and for every other query, and
\* every concept a smart-mode preview injects is on the allowlist of the
\* broker's project.
C15_AllowlistRestricts ==
  /\ (ret.op = "conceptSearch" /\ IsSome(ret.params.projectId))
       => FoundConceptIds \subseteq AllowedIds(conceptDb[ret.project], ret.params.projectId[1])
  /\ (ret.op = "preview" /\ "out" \in DOMAIN ret /\ ret.params.mode = Some("smart"))
       => InjectedConceptIds \subseteq AllowedIds(conceptDb[ret.project], ret.project)

\* a search for a word of three stored titles, restricted to the project,
\* has returned the one that is on the allowlist
C15_Witness ==
  /\ ret.op = "conceptSearch"
  /\ ret.params.q = <<"p", "a", "t", "t", "e", "r", "n">>
  /\ ret.params.projectId = Some(Handle)
  /\ Len(ret.out.results) = 1
  /\ Cardinality({i \in 1..Len(conceptDb[ret.project].concepts) :
                    ConceptTermFreq(conceptDb[ret.project].concepts[i],
                                    FtsTerm(<<"p", "a", "t", "t", "e", "r", "n">>)) > 0}) = 3

(***************************************************************************)
(* Properties of updateAllowlist.                                          *)
(***************************************************************************)
\* the elements of a sequence
Elements(seq) == {seq[i] : i \in 1..Len(seq)}

\* the ids of the concepts of a store
StoredConceptIds(db) == {db.concepts[i].id : i \in 1..Len(db.concepts)}

\* when an id was added to the allowlist of a project
AddedAt(db, projectId, conceptId) ==
  db.allowlists[CHOOSE i \in 1..Len(db.allowlists) :
                  /\ db.allowlists[i].project_id = projectId
                  /\ db.allowlists[i].concept_id = conceptId].added_at

\* C16: updateAllowlist puts on the allowlist, and reports in added, only
\* ids of stored concepts; removed holds only ids that were on the list;
\* list returns the entries of the project, each once, the most recently
\* added first; and after every step each entry of every allowlist names a
\* stored concept.
C16_AllowlistUpdates ==
  [][ /\ \A p \in DOMAIN conceptDb' :
           \A i \in 1..Len(conceptDb'[p].allowlists) :
              conceptDb'[p].allowlists[i].concept_id \in StoredConceptIds(conceptDb'[p])
      /\ ret'.op = "updateAllowlist"
           => LET before == AllowedIds(conceptDb[ret'.project], ret'.params.projectId)
                  after == AllowedIds(conceptDb'[ret'.project], ret'.params.projectId)
                  added == Elements(OrEmpty(ret'.out.added))
                  removed == Elements(OrEmpty(ret'.out.removed))
                  list == OrEmpty(ret'.out.allowlist)
              IN /\ after \ before \subseteq StoredConceptIds(conceptDb[ret'.project])
                 /\ added \subseteq StoredConceptIds(conceptDb[ret'.project]) \ before
                 /\ added \subseteq Elements(OrEmpty(ret'.params.add))
                 /\ removed \subseteq before \cup added
                 /\ after = (before \cup added) \ removed
                 /\ IsSome(ret'.out.allowlist)
                      => /\ Elements(list) = after
                         /\ Len(list) = Cardinality(after)
                         /\ \A i \in 1..Len(list), j \in 1..Len(list) :
                              i < j => AddedAt(conceptDb'[ret'.project],
                                               ret'.params.projectId, list[i])
                                         >= AddedAt(conceptDb'[ret'.project],
                                                    ret'.params.projectId, list[j]) ]_vars

\* a call has added the stored one of two ids, and its list names it before
\* the entry added earlier
C16_Witness ==
  /\ ret.op = "updateAllowlist"
  /\ ret.params.add = Some(<<MissingId, SavedId>>)
  /\ ret.out.added = Some(<<SavedId>>)
  /\ ret.out.allowlist = Some(<<SavedId, SeedId>>)
  /\ AddedAt(conceptDb[ret.project], ret.params.projectId, SeedId)
       < AddedAt(conceptDb[ret.project], ret.params.projectId, SavedId)

(***************************************************************************)
(* Concept search for everything.                                          *)
(***************************************************************************)
\* a search of either store with an empty, blank or '*' query and no project
IsWildcardCall ==
  /\ ret.op \in {"conceptSearch", "enhancedSearch"}
  /\ Trim(ret.params.q) \in {<<>>, Star}
  /\ ret.params.projectId = None

\* the rows of the store the last search read
SearchedRows ==
  IF ret.op = "enhancedSearch" THEN enhancedDb[ret.project].concepts
  ELSE conceptDb[ret.project].concepts

\* the rank of a result: importance, plus usage where the store records it
WildcardRank(result) ==
  IF ret.op = "enhancedSearch" THEN UsageScore(result.concept, ret.at)
  ELSE result.concept.importance

\* C17: a concept search with an empty, whitespace-only or '*' query and no
\* projectId never raises, returns min(k, stored) concepts in non-increasing
\* order of their importance-plus-usage rank, and so returns at least one
\* concept whenever the store holds one.
C17_WildcardSearch ==
  IsWildcardCall =>
    /\ ~ret.out.threw
    /\ Len(ret.out.results)
         = Min({OrDefault(ret.params.k, ConceptDefaultK), Len(SearchedRows)})
    /\ \A i \in 1..(Len(ret.out.results) - 1) :
         WildcardRank(ret.out.results[i]) >= WildcardRank(ret.out.results[i + 1])
    /\ (Len(SearchedRows) > 0 => Len(ret.out.results) > 0)

(***************************************************************************)
(* The fallback of tool concept_search.                                    *)
(***************************************************************************)
\* the first search of the handler's last call
FirstToolSearch ==
  conceptSearch(conceptDb[ret.project],
                ToolParams(ret.args, TrimOrStar(ToolQuery(ret.args))))

\* the last call asked for a query other than '*' and its search found nothing
IsFallbackCall ==
  /\ ret.op = "concept_search"
  /\ TrimOrStar(ToolQuery(ret.args)) # Star
  /\ ~FirstToolSearch.threw
  /\ FirstToolSearch.results = <<>>

\* the concepts the call's allowlist lets the handler show
ShowableIds ==
  IF IsSome(ret.args.allowlist) /\ ret.args.allowlist[1] # <<>>
  THEN StoredConceptIds(conceptDb[ret.project]) \cap Elements(ret.args.allowlist[1])
  ELSE StoredConceptIds(conceptDb[ret.project])

\* C18: when the search of a query other than '*' finds nothing, the
\* response holds the ranking of all concepts, its note says that all
\* concepts are shown and does not say that they match the query, and it is
\* empty only when there is no concept to show.
C18_FallbackIsTold ==
  IsFallbackCall =>
    /\ ~ret.out.threw
    /\ ret.out.concepts
         = ToolConcepts(conceptSearch(conceptDb[ret.project],
                                      ToolParams(ret.args, Star)).results)
    /\ (ret.out.count = 0 <=> ShowableIds = {})
    /\ ret.out.count > 0 => ret.out.note.text = "Showing all available global concepts"

(***************************************************************************)
(* The concept stores of the projects.                                     *)
(***************************************************************************)
\* C19: the concept store is one instance shared by all projects: get(id)
\* and a search without projectId return, while one project is active, what
\* they return while any other project is active, so that a concept saved
\* under one project is found under every other.
C19_SharedStore ==
  /\ ret.op = "conceptGet" =>
       \A p \in DOMAIN conceptDb : ret.out = conceptGet(conceptDb[p], ret.id)
  /\ (ret.op = "conceptSearch" /\ ret.params.projectId = None) =>
       \A p \in DOMAIN conceptDb : ret.out = conceptSearch(conceptDb[p], ret.params)

(***************************************************************************)
(* The ranking configuration.                                              *)
(***************************************************************************)
\* the configuration of the broker of project p in broker state b
RulesOf(b, p) == b[p].objects[RulesRef]

\* C21: getRules returns the fields of the current configuration in an
\* object of its own, so that a change of the returned object leaves the
\* configuration as it was; setRules(r) leaves a configuration that has the
\* value of r in every field of r and the previous value in every other
\* field.
C21_RulesSnapshot ==
  [][/\ ret'.op = "getRules" =>
          /\ ret'.out = RulesOf(broker, ret'.project)
          /\ RulesOf(broker', ret'.project) = RulesOf(broker, ret'.project)
     /\ ret'.op = "writeReturned" =>
          RulesOf(broker', ret'.project) = RulesOf(broker, ret'.project)
     /\ ret'.op = "setRules" =>
          /\ DOMAIN RulesOf(broker', ret'.project)
               = DOMAIN RulesOf(broker, ret'.project) \cup DOMAIN ret'.rules
          /\ \A f \in DOMAIN RulesOf(broker', ret'.project) :
               RulesOf(broker', ret'.project)[f]
                 = IF f \in DOMAIN ret'.rules THEN ret'.rules[f]
                   ELSE RulesOf(broker, ret'.project)[f]]_vars

\* the caller changed the object it was handed after a setRules, and the
\* configuration still has the values that setRules gave it
C21_Witness ==
  /\ ret.op = "writeReturned"
  /\ ret.value = 5
  /\ broker[ret.project].objects[CopyRef].minImportance = 5
  /\ RulesOf(broker, ret.project).minImportance = 4
  /\ RulesOf(broker, ret.project).maxMemoryAge = Ms(0, 1000)
  /\ RulesOf(broker, ret.project).dedupeThreshold = DefaultRules.dedupeThreshold

(***************************************************************************)
(* The greedy selection of preview.                                        *)
(***************************************************************************)
\* the ranked candidates of the last preview
LastCandidates ==
  previewCandidates(ret.project, ret.params, ret.concepts, ret.at).scoredCandidates

\* C22: the selection of preview passes over a candidate that does not fit
\* and goes on: when top_k is at least 1 and some candidate is no larger
\* than budget_bytes, preview returns at least one injection.
C22_SelectionContinues ==
  (/\ ret.op = "preview"
   /\ "out" \in DOMAIN ret
   /\ ret.out.topK >= 1
   /\ \E i \in 1..Len(LastCandidates) : LastCandidates[i].byteSize <= ret.out.budgetLimit)
    => ret.out.injections # <<>>

(***************************************************************************)
(* Stage 3 of the cascade.                                                 *)
(***************************************************************************)
\* the rows a search for the single term word would select
RowsMatchingTerm(word) ==
  SelectSeq(memories[ret.project], LAMBDA row :
    /\ Tokenize(word) # <<>>
    /\ SearchSelected(row, ret.project, ret.params, ret.at, Tokenize(word), <<>>))

\* the ids of the rows that match at least one term of the last query
IdsMatchingAnyTerm ==
  UNION { {RowsMatchingTerm(QueryWords(ret.params.q)[w])[i].id :
             i \in 1..Len(RowsMatchingTerm(QueryWords(ret.params.q)[w]))} :
          w \in 1..Len(QueryWords(ret.params.q)) }

\* the calls of stage 3 among the stages the last search ran
ThirdStageCalls == SelectSeq(ret.out.calls, LAMBDA call : call.stage = 3)

\* C23: stage 3 searches for the terms joined by a logical OR: when it runs
\* and some record that the search can see matches at least one term of
\* three or more characters, it yields a non-empty list of records that each
\* match one of the terms.
C23_StageThreeIsOr ==
  (/\ ret.op \in {"search", "searchWithDebug"}
   /\ ~ret.params.require_path_match
   /\ ThirdStageCalls # <<>>) =>
     /\ ~ThirdStageCalls[1].threw
     /\ \A i \in 1..Len(ThirdStageCalls[1].results) :
          ThirdStageCalls[1].results[i].memory.id \in IdsMatchingAnyTerm
     /\ IdsMatchingAnyTerm # {} => ThirdStageCalls[1].results # <<>>

(***************************************************************************)
(* The sweep, in the long run.                                             *)
(***************************************************************************)
\* the store of the handle holds a record with this id whose expires_at has
\* passed
HoldsOverdue(id) ==
  \E i \in 1..Len(memories[Handle]) :
    memories[Handle][i].id = id /\ Expired(memories[Handle][i], now)

HoldsId(id) == \E i \in 1..Len(memories[Handle]) : memories[Handle][i].id = id

\* C24: while the timer of the handle keeps calling the sweep, a record
\* whose expires_at has passed is deleted in the end, whatever saves and
\* reads are handled in between.
C24_OverdueIsSwept == \A id \in TtlIds : HoldsOverdue(id) ~> ~HoldsId(id)

\* at the end of the horizon a sweep has removed an overdue record, and a
\* record that is not yet due is still stored
C24_Witness ==
  /\ ret.op = "sweep"
  /\ ret.changes = 1
  /\ now = MaxNow
  /\ \E i \in 1..Len(memories[Handle]) :
       /\ IsSome(memories[Handle][i].expires_at)
       /\ memories[Handle][i].expires_at[1] > now

(***************************************************************************)
(* The modes of preview.                                                   *)
(***************************************************************************)
\* the search of all concepts, without allowlist and project, that a
\* preview in mode soft is to run for its task
UnrestrictedSearch ==
  conceptSearch(conceptDb[ret.project],
                [q |-> extractSearchTerms(ret.params.task), k |-> Some(BrokerConceptK),
                 allowlist |-> None, projectId |-> None])

\* the concepts of that search whose score is above 0.5
RelevantConcepts ==
  SelectSeq(UnrestrictedSearch.results, LAMBDA r : 2 * r.score > ScoreUnit)

\* C25: a preview in mode hard does not search the concepts: it returns,
\* even for a task whose concept query is no valid query, and it holds no
\* injection of type concept and counts no concept match.  A preview in mode
\* soft searches all concepts without allowlist and project, and its
\* concept candidates are the results of that search with a score above 0.5.
C25_ModesOfPreview ==
  (ret.op = "preview" /\ ret.params.mode = Some("hard") =>
     /\ "out" \in DOMAIN ret
     /\ \A i \in 1..Len(ret.out.injections) : ret.out.injections[i].type # "concept"
     /\ ret.out.stats.conceptMatches = 0)
  /\ (ret.op = "preview" /\ ret.params.mode = Some("soft") =>
        IF UnrestrictedSearch.threw THEN "out" \notin DOMAIN ret
        ELSE /\ "out" \in DOMAIN ret
             /\ ret.out.stats.conceptMatches = Len(RelevantConcepts)
             /\ InjectedConceptIds
                  \subseteq {RelevantConcepts[i].concept.id : i \in 1..Len(RelevantConcepts)})

\* a preview in mode soft has injected a concept that is not on the
\* allowlist of its project
C25_Witness ==
  /\ ret.op = "preview"
  /\ ret.params.mode = Some("soft")
  /\ "out" \in DOMAIN ret
  /\ \E id \in InjectedConceptIds : id \notin AllowedIds(conceptDb[ret.project], ret.project)
  /\ AllowedIds(conceptDb[ret.project], ret.project) # {}

(***************************************************************************)
(* The ranking configuration and preview.                                  *)
(***************************************************************************)
\* the stored records that the last preview injected
InjectedRows ==
  SelectSeq(memories[ret.project], LAMBDA row :
    \E i \in 1..Len(ret.out.injections) :
      ret.out.injections[i].type = "memory" /\ ret.out.injections[i].id = row.id)

\* C26: a preview injects no memory whose importance is below the minimum
\* importance, or whose age exceeds the maximum memory age, of the
\* configuration in force when it is called.
C26_RulesGovernPreview ==
  (ret.op = "preview" /\ "out" \in DOMAIN ret) =>
    \A i \in 1..Len(InjectedRows) :
      /\ InjectedRows[i].importance >= RulesOf(broker, ret.project).minImportance
      /\ ~Exceeds(ret.at - InjectedRows[i].created_at,
                  RulesOf(broker, ret.project).maxMemoryAge)

(***************************************************************************)
(* The edges that a concept save infers.                                   *)
(***************************************************************************)
\* the number of tags two lists share, and the larger of their lengths
SharedTags(a, b) == Cardinality(Elements(a) \cap Elements(b))

LargerLen(a, b) == Max({Len(a), Len(b)})

\* whether the overlap ratio of two tag lists exceeds 0.3
RatioAboveThreshold(a, b) == 10 * SharedTags(a, b) > 3 * LargerLen(a, b)

\* the edges of a store from one concept to another
EdgesBetween(db, from, to) ==
  SelectSeq(db.relationships, LAMBDA rel : rel.concept_id = from /\ rel.related_id = to)

\* C27: after a concept save, the saved concept has a 'related' edge to
\* every other concept whose overlap ratio of tags with it exceeds 0.3, the
\* strength of that edge is the overlap ratio, there is no edge to a concept
\* with a ratio of 0.3 or less, and every strength lies between 0 and 1.
C27_InferredEdges ==
  [][(ret'.op = "enhancedSave" /\ ~ret'.threw) =>
       LET db == enhancedDb'[ret'.project]
           saved == db.concepts[Len(db.concepts)]
       IN /\ \A i \in 1..(Len(db.concepts) - 1) :
               LET other == db.concepts[i]
                   edges == EdgesBetween(db, saved.id, other.id)
               IN IF RatioAboveThreshold(saved.tags, other.tags)
                  THEN /\ Len(edges) = 1
                       /\ edges[1].relationship_type = "related"
                       /\ edges[1].strength * LargerLen(saved.tags, other.tags)
                            = SharedTags(saved.tags, other.tags) * ScoreUnit
                  ELSE edges = <<>>
          /\ \A j \in 1..Len(db.relationships) :
               db.relationships[j].strength \in 0..ScoreUnit]_vars

\* the rows of db hold the rows of the store before, the row of id with one
\* more use and last_used t, every other row as it was
TrackedOnly(before, after, id, t) ==
  /\ Len(after.concepts) = Len(before.concepts)
  /\ \A i \in 1..Len(before.concepts) :
       IF before.concepts[i].id = id
       THEN /\ after.concepts[i].usage_count = before.concepts[i].usage_count + 1
            /\ after.concepts[i].last_used = Some(t)
            /\ [after.concepts[i] EXCEPT !.usage_count = 0, !.last_used = None]
                 = [before.concepts[i] EXCEPT !.usage_count = 0, !.last_used = None]
       ELSE after.concepts[i] = before.concepts[i]
  /\ after.relationships = before.relationships
  /\ after.allowlists = before.allowlists

ResultIds(results) == {results[i].concept.id : i \in 1..Len(results)}

\* the edges of the store from one concept to another, as a set
EdgesFromTo(db, from, to) ==
  {db.relationships[i] :
     i \in {j \in 1..Len(db.relationships) :
              /\ db.relationships[j].concept_id = from
              /\ db.relationships[j].related_id = to}}

\* the edge lets the source append the result: it runs from the source to the
\* result's concept, at most one edge of the source is stronger, and the
\* result's score is the source's score times the strength times 0.5 (to the
\* millionth)
AppendsBy(db, source, edge, result) ==
  /\ edge.concept_id = source.concept.id
  /\ edge.related_id = result.concept.id
  /\ Cardinality({i \in 1..Len(db.relationships) :
                    /\ db.relationships[i].concept_id = source.concept.id
                    /\ db.relationships[i].strength > edge.strength}) < 2
  /\ 2 * result.score <= MulMillionths(source.score, edge.strength)
  /\ MulMillionths(source.score, edge.strength) <= 2 * result.score + 1

\* some assignment of the appended entries to the sources lets every entry
\* be appended by its source and gives no source more than two entries
AppendedBySources(db, inputs, output, appended, sources) ==
  \E by \in [appended -> sources] :
    /\ \A a \in appended :
         \E edge \in EdgesFromTo(db, inputs[by[a]].concept.id, output[a].concept.id) :
           AppendsBy(db, inputs[by[a]], edge, output[a])
    /\ \A s \in sources : Cardinality({a \in appended : by[a] = s}) <= 2

EnrichedFrom(db, inputs, output) ==
  /\ \A i \in 1..Len(inputs) : \E j \in 1..Len(output) : output[j] = inputs[i]
  /\ \A j, k \in 1..Len(output) :
       j # k => output[j].concept.id # output[k].concept.id
  /\ \A j \in 1..Len(output) :
       output[j].concept.id \notin ResultIds(inputs)
         => \E i \in 1..Len(db.concepts) :
              output[j].concept = enhancedRowToConcept(db.concepts[i])
  /\ \A appended \in {{j \in 1..Len(output) : output[j].concept.id \notin ResultIds(inputs)}} :
       AppendedBySources(db, inputs, output, appended,
                         1..(IF Len(inputs) < 3 THEN Len(inputs) ELSE 3))

\* C29: the list a search with includeRelated returns holds every result of
\* the statement; every other entry is a stored concept that one of the first
\* three results of the statement reaches by an outgoing edge that is among
\* the two strongest of its source, with the score of that source times the
\* strength of the edge times 0.5; no source adds more than two entries; and
\* no two entries have the same concept id.
C29_EnrichWithRelated ==
  [][(/\ ret'.op = "enhancedSearch"
      /\ IncludesRelated(ret'.params)
      /\ ~ret'.out.threw) =>
       \A inputs \in {enhancedSearch(enhancedDb[ret'.project], ret'.params, ret'.at).results},
          output \in {ret'.out.results} :
         EnrichedFrom(enhancedDb[ret'.project], inputs, output)]_vars

\* a search with includeRelated and k above three returned more than k
\* concepts, among them one with more than two outgoing edges, and did not
\* follow an edge of one of the concepts it returned
C29_Witness ==
  /\ ret.op = "enhancedSearch"
  /\ IncludesRelated(ret.params)
  /\ IsSome(ret.params.k)
  /\ ret.params.k[1] > 3
  /\ Len(ret.out.results) > ret.params.k[1]
  /\ \E id \in ResultIds(ret.out.results) :
       Len(OutgoingEdges(enhancedDb[ret.project], id)) > 2
  /\ \E i \in 1..Len(enhancedDb[ret.project].relationships) :
       /\ enhancedDb[ret.project].relationships[i].concept_id \in ResultIds(ret.out.results)
       /\ enhancedDb[ret.project].relationships[i].related_id \notin ResultIds(ret.out.results)

\* C30: for the same store, parameters and time, the results of
\* searchWithDebug are the list search returns, and both execute the same
\* stages with the same queries and stop at the same stage.
C30_DebugSearchAgrees ==
  ret.op = "searchWithDebug" =>
    \A plain \in {search(ret.project, ret.params, ret.at)} :
      /\ ret.out.results = plain.results
      /\ ret.out.calls = plain.calls
      /\ ret.out.raised = plain.raised

\* a searchWithDebug that its second fallback answered, after the primary
\* search found nothing
C30_Witness ==
  /\ ret.op = "searchWithDebug"
  /\ ret.out.fallback_used = Some("or_search")
  /\ Len(ret.out.calls) >= 2
  /\ Len(ret.out.results) > 0
  /\ ret.out.results = search(ret.project, ret.params, ret.at).results

(***************************************************************************)
(* Reads by id and expiry.                                                 *)
(***************************************************************************)
\* whether a returned record has an expires_at before time t
ExpiredAt(memory, t) == IsSome(memory.expires_at) /\ memory.expires_at[1] < t

\* C32: get and getMultiple return no record whose expires_at is in the
\* past at the time of the call.
C32_ReadsByIdSkipExpired ==
  /\ ret.op = "get" => (IsSome(ret.out) => ~ExpiredAt(ret.out[1], now))
  /\ ret.op = "getMultiple" =>
       \A id \in DOMAIN ret.out : IsSome(ret.out[id]) => ~ExpiredAt(ret.out[id][1], now)

(***************************************************************************)
(* The range of importance.                                                *)
(***************************************************************************)
\* every stored record of every project has an integer importance from 1 to 5
IntegerInRange(stores) ==
  \A p \in DOMAIN stores : \A i \in 1..Len(stores[p]) :
    /\ ~stores[p][i].importance_half
    /\ stores[p][i].importance \in MinImportance..MaxImportance

\* C33: after every save each stored record has an integer importance
\* between 1 and 5, a save without importance stores 3, and a save that the
\* store rejects leaves every record as it was.
C33_ImportanceInRange ==
  [][ret'.op = "save" =>
       /\ IntegerInRange(memories')
       /\ (ret'.outcome = "inserted" /\ ~IsSome(ret'.params.importance))
            => memories'[ret'.project][Len(memories'[ret'.project])].importance
                 = DefaultImportance
       /\ ret'.outcome = "threw" => memories' = memories]_vars

(***************************************************************************)
(* The length of the cascade.                                              *)
(***************************************************************************)
\* the stages of the cascade: the primary search and three fallbacks
MaxStages == 4

\* the stage numbers of the calls grow strictly: no stage runs twice
StagesOnce(calls) ==
  /\ \A i \in 1..Len(calls) : calls[i].stage \in 1..MaxStages
  /\ \A i \in 1..Len(calls), j \in 1..Len(calls) :
       i < j => calls[i].stage < calls[j].stage

PrimaryMatch(q) == FtsParse(escapeQuery(q))

FallbackMatch(q) == FtsParse(escapeQuery(FallbackQuery(q)))

\* the outcome 'removed_special_chars' with a result
AnsweredByFirstFallback(out) ==
  out.fallback_used = Some("removed_special_chars") /\ Len(out.results) > 0

\* the first fallback on primary and fallback outcomes s1 and s2: it yields
\* results only where the primary search did
AddsNothing(s1, s2) == Len(Yield(s2)) > 0 => Len(Yield(s1)) > 0

\* C38 as stated: for a query with special characters the MATCH argument of
\* stage 2 reads as the MATCH argument of stage 1 does, stage 2 yields
\* results only if stage 1 did, and no searchWithDebug ends with
\* 'removed_special_chars' and a result.
C38_SameFullTextQuery ==
  (ret.op \in {"search", "searchWithDebug"} /\ HasSpecial(ret.params.q)) =>
    /\ FallbackMatch(ret.params.q) = PrimaryMatch(ret.params.q)
    /\ \A s1 \in {Stage(1, ret.project, ret.params, ret.params.q, ret.at)},
          s2 \in {Stage(2, ret.project, ret.params, FallbackQuery(ret.params.q), ret.at)} :
         AddsNothing(s1, s2)
    /\ ret.op = "searchWithDebug" => ~AnsweredByFirstFallback(ret.out)

\* C38: for a query with special characters the MATCH argument of stage 2
\* is the phrase of stage 1 or a syntax error, stage 2 yields results only
\* if stage 1 did, and no searchWithDebug ends with 'removed_special_chars'
\* and a result.
C38_FirstFallbackAddsNothing ==
  (ret.op \in {"search", "searchWithDebug"} /\ HasSpecial(ret.params.q)) =>
    /\ \/ FallbackMatch(ret.params.q).error
       \/ FallbackMatch(ret.params.q) = PrimaryMatch(ret.params.q)
    /\ \A s1 \in {Stage(1, ret.project, ret.params, ret.params.q, ret.at)},
          s2 \in {Stage(2, ret.project, ret.params, FallbackQuery(ret.params.q), ret.at)} :
         AddsNothing(s1, s2)
    /\ ret.op = "searchWithDebug" => ~AnsweredByFirstFallback(ret.out)

\* a searchWithDebug whose first fallback ran with a well-formed phrase and
\* found nothing in a store where a later stage found a record
C38_Witness ==
  /\ ret.op = "searchWithDebug"
  /\ HasSpecial(ret.params.q)
  /\ Len(ret.out.calls) >= 2
  /\ ret.out.calls[2].stage = 2
  /\ ~FallbackMatch(ret.params.q).error
  /\ FallbackMatch(ret.params.q).phrase # <<>>
  /\ Yield(ret.out.calls[2]) = <<>>
  /\ Len(ret.out.results) > 0

(***************************************************************************)
(* A record that save has just returned.                                   *)
(***************************************************************************)
\* the condition the default reads put on a row at time t
\* (expires_at IS NULL OR expires_at > ?)
VisibleByDefault(row, t) == ~IsSome(row.expires_at) \/ row.expires_at[1] > t

\* the rows of project p's table that hold the id
RowsOfId(store, id) == {store[i] : i \in {j \in 1..Len(store) : store[j].id = id}}

\* C35: when save returns, the record with the returned id is stored, the
\* default reads' expiry condition admits it at that time, and a sweep at
\* that time would not delete it; this covers a save that collided with a
\* stored record.
C35_SavedIsVisible ==
  [][(ret'.op = "save" /\ ret'.outcome # "threw") =>
       /\ RowsOfId(memories'[ret'.project], ret'.id) # {}
       /\ \A row \in RowsOfId(memories'[ret'.project], ret'.id) :
            /\ VisibleByDefault(row, now')
            /\ ~Expired(row, now')]_vars

(***************************************************************************)
(* The handles and timers of the server.                                   *)
(***************************************************************************)
\* C31: at any time each project id has at most one open MemoryDatabase
\* handle, and so at most one sweep timer, in the process.
C31_OneHandlePerProject ==
  \A p \in Projects : Cardinality(OpenHandles(server, p)) <= 1

\* C36: no tick of a sweep timer runs cleanupExpired on a handle that has
\* been closed.
C36_NoSweepAfterClose ==
  ret.op = "sweep_tick" => ~ret.closed

\* C37: after every tool call that leaves the server with components, the
\* ProjectManager's current project is the project of the server's handle,
\* of its concept store and of the handle of its broker; a memory_search
\* reports the project that served it as its scope, and a concept_allowlist
\* writes under the id of the project whose concept store it writes to.
C37_CurrentProjectServes ==
  /\ (server.running /\ IsSome(server.memoryDb)) =>
       /\ server.currentProject = Some(ServedProject(server))
       /\ server.currentProject = server.conceptStore
       /\ server.currentProject = Some(server.handles[server.contextBroker[1]].project)
  /\ ret.op = "memory_search" => ret.scope = ret.served
  /\ (ret.op = "concept_allowlist" /\ ~ret.threw) => Some(ret.projectId) = ret.store
====
